---- MODULE Spec2Model ----
(***************************************************************************)
(* Execution core of the benchmark: Orchestrator.run_benchmark (parallel   *)
(* (provider, document) tasks on a thread pool, per-provider semaphores,   *)
(* one shared RAGAS semaphore, incremental result saving) and              *)
(* ProviderExecutor.execute (ingest, queries, batch scoring with retry).   *)
(*                                                                         *)
(* Scores are modelled as integers (tenths); NaN is a separate value that  *)
(* only IsNaN recognises.  Strings stand for Python strings, "None" for    *)
(* Python's None in string-valued fields, <<>> for None where the value is *)
(* a score result.                                                         *)
(***************************************************************************)
EXTENDS Integers, Sequences, FiniteSets, TLC

\* ------------------------------------------------------------------ bounds
MaxQuestions == 2
MaxWorkers == 2
MaxFaults == 2
MaxRuns == 2
MaxCallers == 2

\* ------------------------------------------------------- program constants
max_retries == 3
NaN == 0 - 1

None == "None"

IsNaN(score) == score = NaN

\* providers of the benchmark configuration, in configured order
RunProviders == <<"llamaindex", "landingai">>

\* the three registered providers
IsolationProviders == <<"llamaindex", "landingai", "reducto">>

\* documents of the loaded dataset, in order
RunDocs == <<"doc1", "doc2">>

Metrics == {"faithfulness", "factual_correctness"}
ScoreValues == {NaN, 0, 8}

\* every score map the evaluator can return: one value per configured metric
ScoreMaps == UNION {[ms -> ScoreValues] : ms \in SUBSET Metrics}
AverageScoreMaps ==
    {[m \in {"faithfulness"} |-> 6], [m \in {"faithfulness"} |-> 8],
     [m \in Metrics |-> IF m = "faithfulness" THEN 8 ELSE 0]}
LeanScoreMaps == {[m \in {"faithfulness"} |-> 8]}

Exceptions == {[type |-> "TimeoutError", msg |-> "timed out"],
               [type |-> "ValueError", msg |-> ""]}
LeanExceptions == {[type |-> "TimeoutError", msg |-> "timed out"]}
NoExc == [type |-> None, msg |-> None]

QuestionData(d, i) ==
    [question_id |-> "q" \o ToString(i),
     question |-> "question " \o ToString(i) \o " of " \o d,
     ground_truth |-> "truth " \o ToString(i) \o " of " \o d]

Range(s) == {s[i] : i \in DOMAIN s}

\* ProviderResult as execute creates it
ProviderResult(provider_name, doc_id, status) ==
    [provider |-> provider_name,
     doc_id |-> doc_id,
     status |-> status,
     error |-> None,
     index_id |-> None,
     questions |-> <<>>,
     aggregated_scores |-> <<>>,
     duration_seconds |-> 0]

\* the state of one execute call (a Task on the pool) before a worker runs it
IdleExec ==
    [pc |-> "idle",
     result |-> ProviderResult(None, None, "pending"),
     index_id |-> None,
     question_results |-> <<>>,
     ragas_samples |-> <<>>,
     attempt |-> 0,
     eval_result |-> <<>>,
     last_error |-> NoExc,
     exc |-> NoExc,
     future |-> "none",
     failed_phase |-> "none",
     failed_exc |-> NoExc,
     eval_log |-> <<>>,
     call_log |-> <<>>,
     permit_log |-> <<>>,
     executions |-> 0]

VARIABLES
    provider_names,      \* benchmark_config['providers']
    docs,                \* loaded documents (ids), in order
    questions_by_doc,    \* doc id -> list of QuestionData
    execution_config,    \* max_total_workers, max_per_provider_workers, max_ragas_workers
    resume_enabled,      \* output_config['resume_enabled']
    stub,                \* what the external services (adapters, evaluator, clock) can answer
    faults_left,         \* how many more calls may still raise in this run
    main_pc,             \* position of run_benchmark
    tasks_to_run,        \* submitted tasks <<provider, doc>>, in submission order
    tasks_skipped,
    provider_semaphores, \* provider -> semaphore value
    ragas_semaphore,
    exec,                \* task -> state of its execute call and future
    doc_results_map,     \* doc id -> (provider -> ProviderResult)
    completed_count,
    files,               \* result store: path -> content
    summary,             \* the returned RunSummary, <<>> before
    prior_runs,          \* the RunSummaries earlier runs on this run directory returned
    gen,                 \* a call of _create_task_combinations on its own
    saver,               \* a ResultSaver with the threads that call its save operations
    battle               \* the backend's battle runs, their pending tasks and feedback requests

vars == <<provider_names, docs, questions_by_doc, execution_config, resume_enabled,
          stub, faults_left, main_pc, tasks_to_run, tasks_skipped, provider_semaphores,
          ragas_semaphore, exec, doc_results_map, completed_count, files, summary,
          prior_runs, gen, saver, battle, battle>>

config_vars == <<provider_names, docs, questions_by_doc, execution_config, resume_enabled, stub>>

AllTasks == {<<p, d>> : p \in Range(provider_names), d \in Range(docs)}

Put(f, k, v) == [x \in DOMAIN f \cup {k} |-> IF x = k THEN v ELSE f[x]]

\* ResultSaver paths below run_dir
ProviderPath(doc_id, provider_name) == "docs/" \o doc_id \o "/" \o provider_name \o ".json"
AggregatedPath(doc_id) == "docs/" \o doc_id \o "/aggregated.json"
SummaryPath == "summary.json"

\* a provider result file left in the run directory by an earlier run
PriorResult(t) ==
    [ProviderResult(t[1], t[2], "success") EXCEPT
        !.index_id = "prior",
        !.aggregated_scores = [m \in {"faithfulness"} |-> 0]]

\* a file whose write did not finish: the text is no ProviderResult
Corrupt == [text |-> "{"]

\* the run directory after an earlier run saved the results of the Tasks ts,
\* those of `partial` not to the end
PriorFiles(ts, partial) ==
    LET paths == {ProviderPath(t[2], t[1]) : t \in ts}
        task(x) == CHOOSE t \in ts : ProviderPath(t[2], t[1]) = x
    IN  [x \in paths |-> IF task(x) \in partial THEN Corrupt ELSE PriorResult(task(x))]

\* no call of _create_task_combinations outside run_benchmark
NoCall == [pc |-> "none"]

\* no thread but run_benchmark itself calls the ResultSaver
NoSaver == [write_lock |-> {}]

\* the backend is not running
NoBattle == [registry |-> {}]

\* ------------------------------------------------------------------- Init
InitCommon ==
    /\ main_pc = "start"
    /\ tasks_to_run = <<>>
    /\ tasks_skipped = 0
    /\ provider_semaphores = [p \in Range(provider_names) |-> 0]
    /\ ragas_semaphore = 0
    /\ exec = [t \in AllTasks |-> IdleExec]
    /\ doc_results_map = <<>>
    /\ completed_count = 0
    /\ summary = <<>>
    /\ prior_runs = <<>>
    /\ gen = NoCall
    /\ saver = NoSaver
    /\ battle = NoBattle

\* a run of every provider on every document: services that answer one fixed
\* score map and may raise up to MaxFaults times, every valid worker configuration
InitRun ==
    /\ provider_names = RunProviders
    /\ docs = RunDocs
    /\ questions_by_doc = [d \in Range(docs) |-> <<QuestionData(d, 1)>>]
    /\ execution_config \in
          {[max_total_workers |-> W, max_per_provider_workers |-> P, max_ragas_workers |-> K] :
              W \in 1..MaxWorkers, P \in 1..MaxWorkers, K \in 1..MaxWorkers}
    /\ execution_config.max_per_provider_workers <= execution_config.max_total_workers
    /\ execution_config.max_ragas_workers <= execution_config.max_total_workers
    /\ resume_enabled = FALSE
    /\ files = PriorFiles({}, {})
    /\ stub = [scores |-> LeanScoreMaps, errors |-> LeanExceptions, durations |-> {1}]
    /\ faults_left = MaxFaults
    /\ InitCommon

\* a run over one document in a run directory that may hold results of an
\* earlier run, with resume enabled or not
InitResume ==
    /\ provider_names = RunProviders
    /\ docs = <<RunDocs[1]>>
    /\ questions_by_doc = [d \in Range(docs) |-> <<QuestionData(d, 1)>>]
    /\ execution_config =
          [max_total_workers |-> MaxWorkers, max_per_provider_workers |-> 1,
           max_ragas_workers |-> 1]
    /\ resume_enabled \in BOOLEAN
    /\ files \in {PriorFiles(ts, partial) : ts \in SUBSET AllTasks, partial \in SUBSET AllTasks}
    /\ stub = [scores |-> LeanScoreMaps, errors |-> LeanExceptions, durations |-> {1}]
    /\ faults_left = MaxFaults
    /\ InitCommon

\* one Task alone, with every score map and exception the services can give
InitExec ==
    /\ provider_names = <<RunProviders[1]>>
    /\ docs = <<RunDocs[1]>>
    /\ \E n \in 0..MaxQuestions :
          questions_by_doc = [d \in Range(docs) |-> [i \in 1..n |-> QuestionData(d, i)]]
    /\ execution_config =
          [max_total_workers |-> 1, max_per_provider_workers |-> 1, max_ragas_workers |-> 1]
    /\ resume_enabled = FALSE
    /\ files = PriorFiles({}, {})
    /\ stub = [scores |-> ScoreMaps, errors |-> Exceptions, durations |-> {1, 2}]
    /\ faults_left = max_retries
    /\ InitCommon

\* three providers on two documents, one of the services raising at most once
InitIsolation ==
    /\ provider_names = IsolationProviders
    /\ docs = RunDocs
    /\ questions_by_doc = [d \in Range(docs) |-> <<QuestionData(d, 1)>>]
    /\ execution_config =
          [max_total_workers |-> 2, max_per_provider_workers |-> 1, max_ragas_workers |-> 1]
    /\ resume_enabled = FALSE
    /\ files = PriorFiles({}, {})
    /\ stub = [scores |-> LeanScoreMaps, errors |-> LeanExceptions, durations |-> {1}]
    /\ faults_left = 1
    /\ InitCommon

\* two providers on two documents, one Task at a time, with scores that differ
\* from Task to Task
InitAverage ==
    /\ provider_names = RunProviders
    /\ docs = RunDocs
    /\ questions_by_doc = [d \in Range(docs) |-> <<QuestionData(d, 1)>>]
    /\ execution_config =
          [max_total_workers |-> 1, max_per_provider_workers |-> 1, max_ragas_workers |-> 1]
    /\ resume_enabled = FALSE
    /\ files = PriorFiles({}, {})
    /\ stub = [scores |-> AverageScoreMaps, errors |-> LeanExceptions, durations |-> {1}]
    /\ faults_left = 1
    /\ InitCommon

Init == InitRun \/ InitResume \/ InitExec \/ InitIsolation \/ InitAverage

\* ---------------------------------------------- ProviderExecutor.execute
Provider(t) == t[1]
Doc(t) == t[2]

\* the handle adapter.ingest_documents returns
IndexId(t) == "index_" \o Provider(t) \o "_" \o Doc(t)

\* the RAGResponse adapter.query returns for one question
Response(t, q) ==
    [answer |-> "answer of " \o Provider(t) \o " to " \o q.question,
     context |-> <<"context of " \o Provider(t) \o " for " \o q.question>>]

QuestionResult(q, response) ==
    [question_id |-> q.question_id,
     question |-> q.question,
     ground_truth |-> q.ground_truth,
     response_answer |-> response.answer,
     response_context |-> response.context,
     evaluation_scores |-> <<>>]

RAGEvaluationSample(t, q, response) ==
    [user_input |-> q.question,
     reference |-> q.ground_truth,
     retrieved_contexts |-> response.context,
     response |-> response.answer,
     provider |-> Provider(t)]

\* lines 71-79: the call starts, the result is pending; what the Task has
\* done so far stays on its record
Started(t) ==
    [IdleExec EXCEPT !.pc = "acquire_provider",
                     !.future = "running",
                     !.result = ProviderResult(Provider(t), Doc(t), "pending"),
                     !.call_log = exec[t].call_log,
                     !.permit_log = exec[t].permit_log,
                     !.executions = exec[t].executions + 1]

\* mutant: acquire that never blocks
CanAcquireNoWait(value) == TRUE

\* a semaphore's acquire returns only when its value is positive
CanAcquire(value) == value > 0

\* mutant: a release that hands no permit back
ReleasedNot(value) == value

\* a semaphore's release raises its value by one
Released(value) == value + 1

\* mutant: a scoring failure that skips the finally of line 213
RaisedPastFinally(l, e, phase) ==
    [l EXCEPT !.exc = e, !.failed_phase = phase, !.failed_exc = e, !.pc = "release_provider"]

\* mutant: a failed query that is passed over, the Task going on to scoring
RaisedButScored(l, e, phase) ==
    [l EXCEPT !.exc = e,
              !.failed_phase = phase,
              !.failed_exc = e,
              !.pc = CASE phase = "score" -> "release_ragas"
                       [] phase = "query" -> "acquire_ragas"
                       [] OTHER -> "release_provider"]

\* an exception leaves the try body: ingest and query jump to the handler of
\* line 219, scoring first passes the finally of line 213
Raised(l, e, phase) ==
    [l EXCEPT !.exc = e,
              !.failed_phase = phase,
              !.failed_exc = e,
              !.pc = IF phase = "score" THEN "release_ragas" ELSE "release_provider"]

\* lines 112-117
Ingested(l, t, questions) ==
    [l EXCEPT !.index_id = IndexId(t),
              !.result.index_id = IndexId(t),
              !.pc = IF questions = <<>> THEN "acquire_ragas" ELSE "query"]

\* a call of an external service enters the Task's log
Called(l, call, question_id) ==
    [l EXCEPT !.call_log = Append(@, [call |-> call, question_id |-> question_id])]

\* an acquire or a release of a semaphore enters the Task's log, with the
\* number of service calls the Task has made so far
Permit(l, op, semaphore) ==
    [l EXCEPT !.permit_log =
        Append(@, [op |-> op, semaphore |-> semaphore, calls |-> Len(l.call_log)])]

\* mutant: the questions taken last first
NextQuestionReversed(l, questions) == questions[Len(questions) - Len(l.question_results)]

\* line 119: the loop takes the questions in list order
NextQuestion(l, questions) == questions[Len(l.question_results) + 1]

\* mutant: each answered question entered into the result at once
QueriedIntoResult(l, t, questions) ==
    LET q == NextQuestion(l, questions)
        response == Response(t, q)
    IN  [l EXCEPT !.question_results = Append(@, QuestionResult(q, response)),
                  !.ragas_samples = Append(@, RAGEvaluationSample(t, q, response)),
                  !.result.questions = Append(@, QuestionResult(q, response)),
                  !.pc = IF Len(l.question_results) + 1 = Len(questions)
                            THEN "acquire_ragas" ELSE "query"]

\* lines 119-147, one iteration
Queried(l, t, questions) ==
    LET q == NextQuestion(l, questions)
        response == Response(t, q)
    IN  [l EXCEPT !.question_results = Append(@, QuestionResult(q, response)),
                  !.ragas_samples = Append(@, RAGEvaluationSample(t, q, response)),
                  !.pc = IF Len(l.question_results) + 1 = Len(questions)
                            THEN "acquire_ragas" ELSE "query"]

\* lines 167-170
HasNaN(scores) == \E m \in DOMAIN scores : IsNaN(scores[m])

\* mutant: cleaning that zeroes every metric of a map that holds a NaN
CleanedScoresAllZero(scores) == [m \in DOMAIN scores |-> 0]

\* lines 179-186
CleanedScores(scores) == [m \in DOMAIN scores |-> IF IsNaN(scores[m]) THEN 0 ELSE scores[m]]

\* mutant: the scores reach the first QuestionResult only
ScoredFirstOnly(l, scores) ==
    [l EXCEPT !.eval_result = <<scores>>,
              !.result.questions =
                  [i \in DOMAIN l.question_results |->
                      IF i = 1 THEN [l.question_results[i] EXCEPT !.evaluation_scores = scores]
                               ELSE l.question_results[i]],
              !.result.aggregated_scores = scores,
              !.result.status = "success",
              !.pc = "release_ragas"]

\* lines 199-211: the retry loop was left by break
Scored(l, scores) ==
    [l EXCEPT !.eval_result = <<scores>>,
              !.question_results = [i \in DOMAIN @ |-> [@[i] EXCEPT !.evaluation_scores = scores]],
              !.result.questions =
                  [i \in DOMAIN l.question_results |->
                      [l.question_results[i] EXCEPT !.evaluation_scores = scores]],
              !.result.aggregated_scores = scores,
              !.result.status = "success",
              !.pc = "release_ragas"]

\* mutant: a retry loop that allows one attempt more
EvaluatedOnceMore(l, out) ==
    LET logged == [l EXCEPT !.eval_log = Append(@, out)]
    IN  IF out.kind = "return"
        THEN IF HasNaN(out.scores)
             THEN IF l.attempt < max_retries
                  THEN [logged EXCEPT !.eval_result = <<out.scores>>, !.attempt = @ + 1]
                  ELSE Scored(logged, CleanedScores(out.scores))
             ELSE Scored(logged, out.scores)
        ELSE IF l.attempt < max_retries
             THEN [logged EXCEPT !.last_error = out.exc, !.attempt = @ + 1]
             ELSE Raised([logged EXCEPT !.last_error = out.exc], out.exc, "score")

\* mutant: on the last attempt a NaN answer gives way to an error raised before
EvaluatedLastErrorWins(l, out) ==
    LET logged == [l EXCEPT !.eval_log = Append(@, out)]
    IN  IF out.kind = "return"
        THEN IF HasNaN(out.scores)
             THEN IF l.attempt < max_retries - 1
                  THEN [logged EXCEPT !.eval_result = <<out.scores>>, !.attempt = @ + 1]
                  ELSE IF l.last_error /= NoExc
                       THEN Raised(logged, l.last_error, "score")
                       ELSE Scored(logged, CleanedScores(out.scores))
             ELSE Scored(logged, out.scores)
        ELSE IF l.attempt < max_retries - 1
             THEN [logged EXCEPT !.last_error = out.exc, !.attempt = @ + 1]
             ELSE Raised([logged EXCEPT !.last_error = out.exc], out.exc, "score")

\* lines 162-197: one pass of the retry loop, `out` being what
\* evaluator.evaluate_samples did (returned a score map or raised)
Evaluated(l, out) ==
    LET logged == [l EXCEPT !.eval_log = Append(@, out)]
    IN  IF out.kind = "return"
        THEN IF HasNaN(out.scores)
             THEN IF l.attempt < max_retries - 1
                  THEN [logged EXCEPT !.eval_result = <<out.scores>>, !.attempt = @ + 1]
                  ELSE Scored(logged, CleanedScores(out.scores))
             ELSE Scored(logged, out.scores)
        ELSE IF l.attempt < max_retries - 1
             THEN [logged EXCEPT !.last_error = out.exc, !.attempt = @ + 1]
             ELSE Raised([logged EXCEPT !.last_error = out.exc], out.exc, "score")

\* mutant: the message without the exception's type
ErrorMessageOnly(e) == e.msg

\* line 222
ErrorMessage(e) == e.type \o ": " \o e.msg

\* mutant: no handler around the body of execute
NotHandled(l) == l

\* lines 219-222: the handler of execute
Handled(l) ==
    IF l.exc = NoExc
    THEN l
    ELSE [l EXCEPT !.result.status = "error",
                   !.result.error = ErrorMessage(l.exc),
                   !.exc = NoExc]

\* mutant: the duration entered into the scores of every result
ReturnedAlwaysTimed(l, duration) ==
    LET timed == [l.result EXCEPT !.duration_seconds = duration]
        final == [timed EXCEPT !.aggregated_scores = Put(@, "duration_seconds", duration)]
    IN  [IdleExec EXCEPT !.result = final,
                         !.pc = "done",
                         !.future = IF l.exc = NoExc THEN "result" ELSE "exception",
                         !.exc = l.exc,
                         !.failed_phase = l.failed_phase,
                         !.failed_exc = l.failed_exc,
                         !.eval_log = l.eval_log,
                         !.call_log = l.call_log,
                         !.permit_log = l.permit_log,
                         !.executions = l.executions]

\* lines 230-239: timing, the duration pseudo-metric, return
Returned(l, duration) ==
    LET timed == [l.result EXCEPT !.duration_seconds = duration]
        final == IF timed.status = "success" /\ timed.aggregated_scores /= <<>>
                 THEN [timed EXCEPT !.aggregated_scores = Put(@, "duration_seconds", duration)]
                 ELSE timed
    IN  [IdleExec EXCEPT !.result = final,
                         !.pc = "done",
                         !.future = IF l.exc = NoExc THEN "result" ELSE "exception",
                         !.exc = l.exc,
                         !.failed_phase = l.failed_phase,
                         !.failed_exc = l.failed_exc,
                         !.eval_log = l.eval_log,
                         !.call_log = l.call_log,
                         !.permit_log = l.permit_log,
                         !.executions = l.executions]

\* --------------------------------------------- Orchestrator.run_benchmark
\* mutant: the two loops exchanged, providers outermost
TaskCombinationsByProvider(ds, qmap, ps) ==
    IF \E i \in DOMAIN ds : ds[i] \notin DOMAIN qmap
    THEN [raised |-> "KeyError", tasks |-> <<>>]
    ELSE [raised |-> None,
          tasks |-> [k \in 1..(Len(ds) * Len(ps)) |->
                       <<ps[((k - 1) \div Len(ds)) + 1],
                         ds[((k - 1) % Len(ds)) + 1],
                         qmap[ds[((k - 1) % Len(ds)) + 1]]>>]]

\* _create_task_combinations: documents outermost, the adapters (one per
\* provider name, in configured order) innermost; questions_by_doc[doc.doc_id]
\* raises KeyError for a document without entry and no list is returned
TaskCombinations(ds, qmap, ps) ==
    IF \E i \in DOMAIN ds : ds[i] \notin DOMAIN qmap
    THEN [raised |-> "KeyError", tasks |-> <<>>]
    ELSE [raised |-> None,
          tasks |-> [k \in 1..(Len(ds) * Len(ps)) |->
                       <<ps[((k - 1) % Len(ps)) + 1],
                         ds[((k - 1) \div Len(ps)) + 1],
                         qmap[ds[((k - 1) \div Len(ps)) + 1]]>>]]

\* mutant: the artifact test without the test of resume_enabled
ShouldSkipTaskAnyway(provider_name, doc_id) ==
    ProviderPath(doc_id, provider_name) \in DOMAIN files

\* mutant: only a stored success makes a Task skipped
ShouldSkipTaskIfSuccess(provider_name, doc_id) ==
    IF ~resume_enabled
    THEN FALSE
    ELSE /\ ProviderPath(doc_id, provider_name) \in DOMAIN files
         /\ files[ProviderPath(doc_id, provider_name)] /= Corrupt
         /\ files[ProviderPath(doc_id, provider_name)].status = "success"

\* _should_skip_task
ShouldSkipTask(provider_name, doc_id) ==
    IF ~resume_enabled
    THEN FALSE
    ELSE ProviderPath(doc_id, provider_name) \in DOMAIN files

\* lines 179-186
ResumeFilter(tasks) ==
    LET keep(t) == ~ShouldSkipTask(Provider(t), Doc(t))
    IN  SelectSeq(tasks, keep)

Running(t) == exec[t].pc \notin {"idle", "queued", "done", "collected"}

\* the pool's work queue is first in, first out
HeadOfQueue(t) ==
    \E i \in DOMAIN tasks_to_run :
        /\ tasks_to_run[i] = t
        /\ exec[t].pc = "queued"
        /\ \A j \in 1..(i - 1) : exec[tasks_to_run[j]].pc /= "queued"

\* mutant: a pool that starts a thread for every submitted Task
WorkerAlwaysFree == TRUE

\* mutant: a pool that counts only the Tasks that are not waiting for a permit
WorkerFreeOfWaiting ==
    Cardinality({t \in AllTasks :
                    /\ exec[t].pc \notin {"idle", "queued", "done", "collected"}
                    /\ ~(exec[t].pc = "acquire_provider" /\ provider_semaphores[t[1]] = 0)
                    /\ ~(exec[t].pc = "acquire_ragas" /\ ragas_semaphore = 0)})
       < execution_config.max_total_workers

\* a worker of the pool is free
WorkerFree == Cardinality({t \in AllTasks : Running(t)}) < execution_config.max_total_workers

\* the future of a Task the worker could not run
DispatchFailed(e) ==
    [IdleExec EXCEPT !.pc = "done", !.future = "exception", !.exc = e,
                     !.failed_phase = "dispatch", !.failed_exc = e]

\* mutant: only results with status success are saved
SaveProviderResultIfSuccess(fs, result) ==
    IF result.status = "success"
    THEN Put(fs, ProviderPath(result.doc_id, result.provider), result)
    ELSE fs

\* ResultSaver.save_provider_result
SaveProviderResult(fs, result) == Put(fs, ProviderPath(result.doc_id, result.provider), result)

\* mutant: a result that replaces the document's entry instead of joining it
StoreResultAlone(map, doc_id, provider_name, result) ==
    Put(map, doc_id, Put(<<>>, provider_name, result))

\* line 235
StoreResult(map, doc_id, provider_name, result) ==
    Put(map, doc_id,
        Put(IF doc_id \in DOMAIN map THEN map[doc_id] ELSE <<>>, provider_name, result))

\* mutant: every provider listed, whatever its status
AggregateProviderScoresOfAll(provider_results) ==
    [provider_scores |->
        [p \in DOMAIN provider_results |-> provider_results[p].aggregated_scores]]

\* _aggregate_provider_scores
AggregateProviderScores(provider_results) ==
    [provider_scores |->
        [p \in {x \in DOMAIN provider_results : provider_results[x].status = "success"} |->
            provider_results[p].aggregated_scores]]

DocumentResult(doc_id, provider_results) ==
    [doc_id |-> doc_id,
     num_questions |-> Len(questions_by_doc[doc_id]),
     providers |-> provider_results,
     winner |-> AggregateProviderScores(provider_results)]

\* lines 262-285: one DocumentResult per document that has an entry in the map
DocResults(map) ==
    LET present == SelectSeq(docs, LAMBDA d : d \in DOMAIN map)
    IN  [i \in DOMAIN present |-> DocumentResult(present[i], map[present[i]])]

RECURSIVE SumSeq(_)
SumSeq(s) == IF s = <<>> THEN 0 ELSE s[1] + SumSeq(Tail(s))

\* mutant: the mean taken over all documents, a failure counting as zero
DetermineOverallWinnerOfAll(doc_results) ==
    LET scored(p) == SelectSeq(doc_results, LAMBDA r : p \in DOMAIN r.winner.provider_scores)
        metrics(p) == UNION {DOMAIN r.winner.provider_scores[p] : r \in Range(scored(p))}
        values(p, m) ==
            LET rs == SelectSeq(scored(p), LAMBDA r : m \in DOMAIN r.winner.provider_scores[p])
            IN  [i \in DOMAIN rs |-> rs[i].winner.provider_scores[p][m]]
        providers == {p \in Range(provider_names) : metrics(p) /= {}}
    IN  [provider_avg_scores |->
            [p \in providers |->
                [m \in metrics(p) |-> <<SumSeq(values(p, m)), Len(doc_results)>>]]]

\* _determine_overall_winner: per provider and metric the mean over the documents
\* that list a score, kept as <<sum, count>> (the mean is sum / count)
DetermineOverallWinner(doc_results) ==
    LET scored(p) == SelectSeq(doc_results, LAMBDA r : p \in DOMAIN r.winner.provider_scores)
        metrics(p) == UNION {DOMAIN r.winner.provider_scores[p] : r \in Range(scored(p))}
        values(p, m) ==
            LET rs == SelectSeq(scored(p), LAMBDA r : m \in DOMAIN r.winner.provider_scores[p])
            IN  [i \in DOMAIN rs |-> rs[i].winner.provider_scores[p][m]]
        providers == {p \in Range(provider_names) : metrics(p) /= {}}
    IN  [provider_avg_scores |->
            [p \in providers |->
                [m \in metrics(p) |-> <<SumSeq(values(p, m)), Len(values(p, m))>>]]]

RunSummary(doc_results) ==
    [num_docs |-> Len(docs),
     num_questions_total |-> SumSeq([i \in DOMAIN docs |-> Len(questions_by_doc[docs[i]])]),
     providers |-> provider_names,
     results |-> doc_results,
     overall_winner |-> DetermineOverallWinner(doc_results)]

\* --------------------------------- DocumentProcessor.process_document (legacy)
\* lines 146-153: the result the legacy processor makes of a future that raised
ThreadFailedResult(provider_name, doc_id, e) ==
    [ProviderResult(provider_name, doc_id, "error") EXCEPT
        !.error = "Thread execution failed: " \o e.msg]

\* DocumentProcessor._determine_winner
DetermineWinner(provider_results) ==
    [provider_scores |->
        [p \in {x \in DOMAIN provider_results : provider_results[x].status = "success"} |->
            provider_results[p].aggregated_scores]]

\* process_document for one document, `futures` being what the call of execute
\* for each provider came to: a returned ProviderResult or a raised exception
ProcessDocument(doc_id, futures) ==
    LET providers ==
            [p \in DOMAIN futures |->
                IF futures[p].future = "result"
                THEN futures[p].result
                ELSE ThreadFailedResult(p, doc_id, futures[p].failed_exc)]
    IN  [doc_id |-> doc_id,
         num_questions |-> Len(questions_by_doc[doc_id]),
         providers |-> providers,
         winner |-> DetermineWinner(providers)]

\* ---------------------------------------------------------------- actions
\* lines 157-221: semaphores, task combinations, resume filter, submission
StartRun ==
    /\ main_pc = "start"
    /\ LET combinations == TaskCombinations(docs, questions_by_doc, provider_names).tasks
           tasks == [k \in DOMAIN combinations |-> <<combinations[k][1], combinations[k][2]>>]
           to_run == ResumeFilter(tasks)
       IN  /\ tasks_to_run' = to_run
           /\ tasks_skipped' = Len(tasks) - Len(to_run)
           /\ exec' = [t \in AllTasks |->
                         IF t \in Range(to_run) THEN [IdleExec EXCEPT !.pc = "queued"]
                                                 ELSE IdleExec]
    /\ provider_semaphores' =
          [p \in Range(provider_names) |-> execution_config.max_per_provider_workers]
    /\ ragas_semaphore' = execution_config.max_ragas_workers
    /\ main_pc' = "collecting"
    /\ UNCHANGED <<config_vars, prior_runs, gen, saver, battle, faults_left, doc_results_map, completed_count, files, summary>>

\* a free worker takes the next Task of the queue and enters execute
StartTask(t) ==
    /\ HeadOfQueue(t)
    /\ WorkerFree
    /\ exec' = [exec EXCEPT ![t] = Started(t)]
    /\ UNCHANGED <<config_vars, prior_runs, gen, saver, battle, faults_left, main_pc, tasks_to_run, tasks_skipped,
                   provider_semaphores, ragas_semaphore, doc_results_map, completed_count,
                   files, summary>>

\* the worker fails before execute protects itself: the future holds an exception
FailDispatch(t) ==
    /\ HeadOfQueue(t)
    /\ WorkerFree
    /\ faults_left > 0
    /\ \E e \in stub.errors : exec' = [exec EXCEPT ![t] = DispatchFailed(e)]
    /\ faults_left' = faults_left - 1
    /\ UNCHANGED <<config_vars, prior_runs, gen, saver, battle, main_pc, tasks_to_run, tasks_skipped,
                   provider_semaphores, ragas_semaphore, doc_results_map, completed_count,
                   files, summary>>

\* lines 82-85
AcquireProvider(t) ==
    /\ exec[t].pc = "acquire_provider"
    /\ CanAcquire(provider_semaphores[Provider(t)])
    /\ provider_semaphores' = [provider_semaphores EXCEPT ![Provider(t)] = @ - 1]
    /\ exec' = [exec EXCEPT ![t] = [Permit(@, "acquire", "provider") EXCEPT !.pc = "ingest"]]
    /\ UNCHANGED <<config_vars, prior_runs, gen, saver, battle, faults_left, main_pc, tasks_to_run, tasks_skipped,
                   ragas_semaphore, doc_results_map, completed_count, files, summary>>

\* lines 88-113: adapter.ingest_documents returns a handle or raises
Ingest(t) ==
    /\ exec[t].pc = "ingest"
    /\ \/ /\ exec' = [exec EXCEPT ![t] =
                         Ingested(Called(@, "ingest", None), t, questions_by_doc[Doc(t)])]
          /\ UNCHANGED faults_left
       \/ /\ faults_left > 0
          /\ \E e \in stub.errors :
                exec' = [exec EXCEPT ![t] = Raised(Called(@, "ingest", None), e, "ingest")]
          /\ faults_left' = faults_left - 1
    /\ UNCHANGED <<config_vars, prior_runs, gen, saver, battle, main_pc, tasks_to_run, tasks_skipped, provider_semaphores,
                   ragas_semaphore, doc_results_map, completed_count, files, summary>>

\* lines 119-147: adapter.query answers the next question or raises
Query(t) ==
    /\ exec[t].pc = "query"
    /\ \/ /\ exec' = [exec EXCEPT ![t] =
                         Queried(Called(@, "query",
                                        NextQuestion(@, questions_by_doc[Doc(t)]).question_id),
                                 t, questions_by_doc[Doc(t)])]
          /\ UNCHANGED faults_left
       \/ /\ faults_left > 0
          /\ \E e \in stub.errors :
                exec' = [exec EXCEPT ![t] =
                            Raised(Called(@, "query",
                                          NextQuestion(@, questions_by_doc[Doc(t)]).question_id),
                                   e, "query")]
          /\ faults_left' = faults_left - 1
    /\ UNCHANGED <<config_vars, prior_runs, gen, saver, battle, main_pc, tasks_to_run, tasks_skipped, provider_semaphores,
                   ragas_semaphore, doc_results_map, completed_count, files, summary>>

\* lines 151-160
AcquireRagas(t) ==
    /\ exec[t].pc = "acquire_ragas"
    /\ CanAcquire(ragas_semaphore)
    /\ ragas_semaphore' = ragas_semaphore - 1
    /\ exec' = [exec EXCEPT ![t] = [Permit(@, "acquire", "ragas") EXCEPT !.pc = "evaluate"]]
    /\ UNCHANGED <<config_vars, prior_runs, gen, saver, battle, faults_left, main_pc, tasks_to_run, tasks_skipped,
                   provider_semaphores, doc_results_map, completed_count, files, summary>>

\* line 164 and the pass of the retry loop around it: evaluate_samples returns
\* a score map, or raises (always, when there is no sample)
Evaluate(t) ==
    /\ exec[t].pc = "evaluate"
    /\ \/ /\ exec[t].ragas_samples /= <<>>
          /\ \E scores \in stub.scores :
                exec' = [exec EXCEPT ![t] =
                            Evaluated(Called(@, "score", None), [kind |-> "return", scores |-> scores, exc |-> NoExc])]
          /\ UNCHANGED faults_left
       \/ /\ exec[t].ragas_samples /= <<>>
          /\ faults_left > 0
          /\ \E e \in stub.errors :
                exec' = [exec EXCEPT ![t] =
                            Evaluated(Called(@, "score", None), [kind |-> "raise", scores |-> <<>>, exc |-> e])]
          /\ faults_left' = faults_left - 1
       \/ /\ exec[t].ragas_samples = <<>>
          /\ exec' = [exec EXCEPT ![t] =
                         Evaluated(Called(@, "score", None), [kind |-> "raise", scores |-> <<>>,
                                       exc |-> [type |-> "ValueError",
                                                msg |-> "No samples provided for evaluation"]])]
          /\ UNCHANGED faults_left
    /\ UNCHANGED <<config_vars, prior_runs, gen, saver, battle, main_pc, tasks_to_run, tasks_skipped, provider_semaphores,
                   ragas_semaphore, doc_results_map, completed_count, files, summary>>

\* lines 213-217
ReleaseRagas(t) ==
    /\ exec[t].pc = "release_ragas"
    /\ ragas_semaphore' = Released(ragas_semaphore)
    /\ exec' = [exec EXCEPT ![t] =
                    [Permit(@, "release", "ragas") EXCEPT !.pc = "release_provider"]]
    /\ UNCHANGED <<config_vars, prior_runs, gen, saver, battle, faults_left, main_pc, tasks_to_run, tasks_skipped,
                   provider_semaphores, doc_results_map, completed_count, files, summary>>

\* mutant: execute saves its result itself before it returns
ReleaseProviderAndSave(t) ==
    /\ exec[t].pc = "release_provider"
    /\ provider_semaphores' = [provider_semaphores EXCEPT ![Provider(t)] = Released(@)]
    /\ \E duration \in stub.durations :
          /\ exec' = [exec EXCEPT ![t] =
                         Returned(Permit(Handled(@), "release", "provider"), duration)]
          /\ files' = SaveProviderResult(files, exec'[t].result)
    /\ UNCHANGED <<config_vars, prior_runs, gen, saver, battle, faults_left, main_pc, tasks_to_run, tasks_skipped,
                   ragas_semaphore, doc_results_map, completed_count, summary>>

\* lines 219-239: handler, release of the provider semaphore, timing, return
ReleaseProvider(t) ==
    /\ exec[t].pc = "release_provider"
    /\ provider_semaphores' = [provider_semaphores EXCEPT ![Provider(t)] = Released(@)]
    /\ \E duration \in stub.durations :
          exec' = [exec EXCEPT ![t] =
                      Returned(Permit(Handled(@), "release", "provider"), duration)]
    /\ UNCHANGED <<config_vars, prior_runs, gen, saver, battle, faults_left, main_pc, tasks_to_run, tasks_skipped,
                   ragas_semaphore, doc_results_map, completed_count, files, summary>>

\* mutant: no handler around future.result()
FutureResultUncaught(f) ==
    IF f.future = "result" THEN "returned" ELSE "raised"

\* lines 231-256: future.result() returns the ProviderResult, or raises and the
\* handler of line 253 catches what it raises
FutureResult(f) ==
    IF f.future = "result" THEN "returned" ELSE "caught"

\* mutant: a Task that returned status error is put back into the queue once
CollectedOrRequeued(l) ==
    IF l.future = "result" /\ l.result.status = "error" /\ l.executions < 2
    THEN [l EXCEPT !.pc = "queued"]
    ELSE [l EXCEPT !.pc = "collected"]

\* lines 228-229: as_completed yields every future once, and nothing submits
\* its Task again
Collected(l) == [l EXCEPT !.pc = "collected"]

\* lines 228-256: as_completed hands over a finished future
Collect(t) ==
    /\ main_pc = "collecting"
    /\ exec[t].pc = "done"
    /\ LET outcome == FutureResult(exec[t])
       IN  /\ IF outcome = "returned"
              THEN /\ doc_results_map' =
                         StoreResult(doc_results_map, Doc(t), Provider(t), exec[t].result)
                   /\ files' = SaveProviderResult(files, exec[t].result)
              ELSE UNCHANGED <<doc_results_map, files>>
           /\ completed_count' = IF outcome = "raised" THEN completed_count
                                                      ELSE completed_count + 1
           /\ main_pc' = IF outcome = "raised" THEN "raised" ELSE main_pc
    /\ exec' = [exec EXCEPT ![t] = Collected(@)]
    /\ UNCHANGED <<config_vars, prior_runs, gen, saver, battle, faults_left, tasks_to_run, tasks_skipped,
                   provider_semaphores, ragas_semaphore, summary>>

\* mutant: the collection loop left at the first failure
CollectedOrFailed ==
    \/ \A t \in Range(tasks_to_run) : exec[t].pc = "collected"
    \/ \E t \in Range(tasks_to_run) :
          /\ exec[t].pc = "collected"
          /\ exec[t].future = "exception" \/ exec[t].result.status = "error"

\* lines 228-229 and 208: as_completed has handed over every future and the
\* pool has shut down
AllCollected == \A t \in Range(tasks_to_run) : exec[t].pc = "collected"

\* lines 258-287, once the pool has shut down
Aggregate ==
    /\ main_pc = "collecting"
    /\ AllCollected
    /\ LET doc_results == DocResults(doc_results_map)
       IN  /\ files' = [x \in DOMAIN files \cup {AggregatedPath(r.doc_id) : r \in Range(doc_results)} |->
                           IF \E r \in Range(doc_results) : x = AggregatedPath(r.doc_id)
                           THEN CHOOSE r \in Range(doc_results) : x = AggregatedPath(r.doc_id)
                           ELSE files[x]]
           /\ summary' = <<doc_results>>
    /\ main_pc' = "aggregated"
    /\ UNCHANGED <<config_vars, prior_runs, gen, saver, battle, faults_left, tasks_to_run, tasks_skipped, provider_semaphores,
                   ragas_semaphore, exec, doc_results_map, completed_count>>

\* lines 289-316
Summarize ==
    /\ main_pc = "aggregated"
    /\ summary' = RunSummary(summary[1])
    /\ files' = Put(files, SummaryPath, RunSummary(summary[1]))
    /\ main_pc' = "returned"
    /\ UNCHANGED <<config_vars, prior_runs, gen, saver, battle, faults_left, tasks_to_run, tasks_skipped, provider_semaphores,
                   ragas_semaphore, exec, doc_results_map, completed_count>>

\* run_benchmark is called again with the same configuration on the same run
\* directory, as a resumed run is
RunAgain ==
    /\ main_pc = "returned"
    /\ resume_enabled
    /\ Len(prior_runs) < MaxRuns - 1
    /\ prior_runs' = Append(prior_runs, summary)
    /\ main_pc' = "start"
    /\ tasks_to_run' = <<>>
    /\ tasks_skipped' = 0
    /\ provider_semaphores' = [p \in Range(provider_names) |-> 0]
    /\ ragas_semaphore' = 0
    /\ exec' = [t \in AllTasks |-> IdleExec]
    /\ doc_results_map' = <<>>
    /\ completed_count' = 0
    /\ summary' = <<>>
    /\ UNCHANGED <<config_vars, gen, saver, battle, faults_left, files>>

Next ==
    \/ StartRun
    \/ \E t \in AllTasks : StartTask(t)
    \/ \E t \in AllTasks : FailDispatch(t)
    \/ \E t \in AllTasks : AcquireProvider(t)
    \/ \E t \in AllTasks : Ingest(t)
    \/ \E t \in AllTasks : Query(t)
    \/ \E t \in AllTasks : AcquireRagas(t)
    \/ \E t \in AllTasks : Evaluate(t)
    \/ \E t \in AllTasks : ReleaseRagas(t)
    \/ \E t \in AllTasks : ReleaseProvider(t)
    \/ \E t \in AllTasks : Collect(t)
    \/ Aggregate
    \/ Summarize
    \/ RunAgain

Spec == Init /\ [][Next]_vars

\* the same program when no thread stops for ever while it can take a step:
\* the pool's workers and the main thread are scheduled, and every ingest,
\* query and scoring call returns or raises
\* taken from a run of every provider on every document under every worker
\* configuration W, P, K >= 1 (P = K in the runs with resume enabled, which
\* are run again on their own results), the services raising at most once
InitLive ==
    /\ provider_names = RunProviders
    /\ docs = RunDocs
    /\ questions_by_doc = [d \in Range(docs) |-> <<QuestionData(d, 1)>>]
    /\ execution_config \in
          {[max_total_workers |-> W, max_per_provider_workers |-> P, max_ragas_workers |-> K] :
              W \in 1..MaxWorkers, P \in 1..MaxWorkers, K \in 1..MaxWorkers}
    /\ resume_enabled \in BOOLEAN
    /\ resume_enabled =>
          execution_config.max_per_provider_workers = execution_config.max_ragas_workers
    /\ files = PriorFiles({}, {})
    /\ stub = [scores |-> LeanScoreMaps, errors |-> LeanExceptions, durations |-> {1}]
    /\ faults_left = 1
    /\ InitCommon

SpecLive == InitLive /\ [][Next]_vars /\ WF_vars(Next)

\* ----------------------------------- external calls that may never return
\* execute passes no timeout to adapter.ingest_documents, adapter.query or
\* evaluator.evaluate_samples and sets none around them (lines 112, 122, 164):
\* a call that never returns leaves the worker inside it
Hang(t) ==
    /\ exec[t].pc \in {"ingest", "query", "evaluate"}
    /\ exec' = [exec EXCEPT ![t] =
                    [Called(@, CASE @.pc = "ingest" -> "ingest"
                                 [] @.pc = "query" -> "query"
                                 [] OTHER -> "score", None)
                        EXCEPT !.pc = "hung"]]
    /\ UNCHANGED <<config_vars, prior_runs, gen, saver, battle, faults_left, main_pc, tasks_to_run,
                   tasks_skipped, provider_semaphores, ragas_semaphore, doc_results_map,
                   completed_count, files, summary>>

\* a run of two providers on one document, with resume enabled or not, in
\* which calls may raise once and may never return
InitHang ==
    /\ provider_names = RunProviders
    /\ docs = <<RunDocs[1]>>
    /\ questions_by_doc = [d \in Range(docs) |-> <<QuestionData(d, 1)>>]
    /\ execution_config \in
          {[max_total_workers |-> W, max_per_provider_workers |-> 1, max_ragas_workers |-> 1] :
              W \in 1..MaxWorkers}
    /\ resume_enabled \in BOOLEAN
    /\ files = PriorFiles({}, {})
    /\ stub = [scores |-> LeanScoreMaps, errors |-> LeanExceptions, durations |-> {1}]
    /\ faults_left = 1
    /\ InitCommon

NextHang ==
    \/ StartRun
    \/ \E t \in AllTasks : StartTask(t)
    \/ \E t \in AllTasks : FailDispatch(t)
    \/ \E t \in AllTasks : AcquireProvider(t)
    \/ \E t \in AllTasks : Ingest(t)
    \/ \E t \in AllTasks : Query(t)
    \/ \E t \in AllTasks : AcquireRagas(t)
    \/ \E t \in AllTasks : Evaluate(t)
    \/ \E t \in AllTasks : ReleaseRagas(t)
    \/ \E t \in AllTasks : ReleaseProvider(t)
    \/ \E t \in AllTasks : Collect(t)
    \/ \E t \in AllTasks : Hang(t)
    \/ Aggregate
    \/ Summarize
    \/ RunAgain

\* every thread that can take a step takes one; a call that never returns
\* gives its thread no step to take
SpecHang == InitHang /\ [][NextHang]_vars /\ WF_vars(NextHang)

\* ------------------------------- _create_task_combinations called on its own
\* the lists without repetition over a set
RECURSIVE Orderings(_)
Orderings(S) ==
    {<<>>} \cup UNION {{<<x>> \o o : o \in Orderings(S \ {x})} : x \in S}

\* a question map: any of the documents may have no entry, or an empty list
QuestionMaps(ds) ==
    UNION {[present -> {<<>>}] \cup
           {[d \in present |-> <<QuestionData(d, 1)>>]} \cup
           {[d \in present |-> IF d = RunDocs[1] THEN <<QuestionData(d, 1)>> ELSE <<>>]}
           : present \in SUBSET ds}

\* no run: the orchestrator has loaded nothing
NoRun ==
    /\ provider_names = <<>>
    /\ docs = <<>>
    /\ questions_by_doc = <<>>
    /\ execution_config =
          [max_total_workers |-> 1, max_per_provider_workers |-> 1, max_ragas_workers |-> 1]
    /\ resume_enabled = FALSE
    /\ files = PriorFiles({}, {})
    /\ stub = [scores |-> LeanScoreMaps, errors |-> LeanExceptions, durations |-> {1}]
    /\ faults_left = 0
    /\ main_pc = "none"
    /\ tasks_to_run = <<>>
    /\ tasks_skipped = 0
    /\ provider_semaphores = <<>>
    /\ ragas_semaphore = 0
    /\ exec = <<>>
    /\ doc_results_map = <<>>
    /\ completed_count = 0
    /\ summary = <<>>
    /\ prior_runs = <<>>

run_vars ==
    <<config_vars, faults_left, main_pc, tasks_to_run, tasks_skipped, provider_semaphores,
      ragas_semaphore, exec, doc_results_map, completed_count, files, summary, prior_runs>>

InitTasks ==
    /\ NoRun
    /\ gen \in {[pc |-> "called", docs |-> ds, questions_by_doc |-> qmap, adapters |-> ps,
                  tasks |-> <<>>] :
                    ds \in Orderings(Range(RunDocs)),
                    qmap \in QuestionMaps(Range(RunDocs)),
                    ps \in Orderings(Range(IsolationProviders))}
    /\ saver = NoSaver
    /\ battle = NoBattle

\* the call returns the list or raises
CreateTaskCombinations ==
    /\ gen.pc = "called"
    /\ LET out == TaskCombinations(gen.docs, gen.questions_by_doc, gen.adapters)
       IN  gen' = [gen EXCEPT !.pc = IF out.raised = None THEN "returned" ELSE "raised",
                              !.tasks = out.tasks]
    /\ UNCHANGED <<run_vars, saver, battle>>

NextTasks == CreateTaskCombinations

SpecTasks == InitTasks /\ [][NextTasks]_vars

\* ------------------------------------- ResultSaver under concurrent callers
Callers == 1..MaxCallers

\* the artifacts the save operations write
SaverPaths ==
    {ProviderPath(RunDocs[1], RunProviders[1]), AggregatedPath(RunDocs[1]), SummaryPath}

\* json.dump writes the text of one save call piece by piece
Pieces == 2

\* a file opened with 'w': nothing in it
Truncated == [k \in 1..Pieces |-> <<>>]

\* the whole text of the save call of caller c
Dumped(c) == [k \in 1..Pieces |-> <<c, k>>]

\* the directory a path lies in ("" for the run directory, made by __init__)
DirOf(path) == IF path = SummaryPath THEN "" ELSE "docs/" \o RunDocs[1]

IdleCaller == [pc |-> "idle", path |-> None, written |-> 0]

InitSaver ==
    /\ NoRun
    /\ gen = NoCall
    /\ saver = [write_lock |-> {},
                callers |-> [c \in Callers |-> IdleCaller],
                dirs |-> {""},
                disk |-> <<>>]
    /\ battle = NoBattle

\* mutant: a write path entered without looking at the lock
LockIgnored(lock) == TRUE

\* `with self._write_lock` is entered only when no thread holds the lock
LockFree(lock) == lock = {}

\* a thread calls save_provider_result, save_document_aggregated or
\* save_run_summary
SaveCall(c) ==
    /\ saver.callers[c].pc = "idle"
    /\ \E path \in SaverPaths :
          saver' = [saver EXCEPT !.callers[c] = [IdleCaller EXCEPT !.pc = "lock", !.path = path]]
    /\ UNCHANGED <<run_vars, gen, battle>>

\* with self._write_lock:
AcquireWriteLock(c) ==
    /\ saver.callers[c].pc = "lock"
    /\ LockFree(saver.write_lock)
    /\ saver' = [saver EXCEPT
                    !.write_lock = {c},
                    !.callers[c].pc = IF saver.callers[c].path = SummaryPath THEN "open"
                                                                             ELSE "mkdir"]
    /\ UNCHANGED <<run_vars, gen, battle>>

\* doc_dir.mkdir(exist_ok=True), not in save_run_summary
MakeDir(c) ==
    /\ saver.callers[c].pc = "mkdir"
    /\ saver' = [saver EXCEPT !.dirs = @ \cup {DirOf(saver.callers[c].path)},
                              !.callers[c].pc = "open"]
    /\ UNCHANGED <<run_vars, gen, battle>>

\* open(result_path, 'w')
OpenFile(c) ==
    /\ saver.callers[c].pc = "open"
    /\ DirOf(saver.callers[c].path) \in saver.dirs
    /\ saver' = [saver EXCEPT !.disk = Put(@, saver.callers[c].path, Truncated),
                              !.callers[c].pc = "dump"]
    /\ UNCHANGED <<run_vars, gen, battle>>

\* json.dump(..., f): the next piece goes to the file at this thread's offset
DumpPiece(c) ==
    /\ saver.callers[c].pc = "dump"
    /\ LET k == saver.callers[c].written + 1
       IN  saver' = [saver EXCEPT !.disk[saver.callers[c].path][k] = <<c, k>>,
                                  !.callers[c].written = k,
                                  !.callers[c].pc = IF k = Pieces THEN "unlock" ELSE "dump"]
    /\ UNCHANGED <<run_vars, gen, battle>>

\* the file is closed and the with block of the lock left
ReleaseWriteLock(c) ==
    /\ saver.callers[c].pc = "unlock"
    /\ saver' = [saver EXCEPT !.write_lock = {}, !.callers[c] = IdleCaller]
    /\ UNCHANGED <<run_vars, gen, battle>>

NextSaver ==
    \/ \E c \in Callers : SaveCall(c)
    \/ \E c \in Callers : AcquireWriteLock(c)
    \/ \E c \in Callers : MakeDir(c)
    \/ \E c \in Callers : OpenFile(c)
    \/ \E c \in Callers : DumpPiece(c)
    \/ \E c \in Callers : ReleaseWriteLock(c)

SpecSaver == InitSaver /\ [][NextSaver]_vars

\* ------------------- backend: battle persistence tasks and battle feedback
MaxBattles == 2
MaxRequests == 2

\* the battle ids compare_parsers generates (uuid4: no id twice) and the
\* requests to /battle-feedback
Battles == 1..MaxBattles
Requests == 1..MaxRequests

\* a battle before compare_parsers has made it
NoTask == [pc |-> "none", outcome |-> "none", callback |-> "none"]

\* a feedback request that has not arrived
IdleRequest ==
    [pc |-> "idle", battle_id |-> {}, row |-> {}, pending |-> {}, waited |-> "none",
     ensured |-> "pending", persisted_at_return |-> FALSE, existing |-> FALSE,
     status |-> "none"]

InitBattle ==
    /\ NoRun
    /\ gen = NoCall
    /\ saver = NoSaver
    /\ battle = [registry |-> {},
                 tasks |-> [b \in Battles |-> NoTask],
                 runs |-> {},
                 feedback |-> [b \in Battles |-> 0],
                 requests |-> [r \in Requests |-> IdleRequest]]

\* line 727
Registered(registry, b) == registry \cup {b}

\* mutant: the callback removes the entry of the battle made last
PoppedLatest(registry, b) ==
    IF registry = {}
    THEN registry
    ELSE registry \ {CHOOSE x \in registry : \A y \in registry : y <= x}

\* line 728: PENDING_BATTLE_TASKS.pop(battle_id, None)
Popped(registry, b) == registry \ {b}

\* lines 702-728: compare_parsers in battle mode creates the persistence task,
\* registers it and adds its done callback, without an await in between
CompareParsers(b) ==
    /\ battle.tasks[b].pc = "none"
    /\ \A c \in Battles : c < b => battle.tasks[c].pc /= "none"
    /\ battle' = [battle EXCEPT !.tasks[b].pc = "upload",
                                !.registry = Registered(@, b)]
    /\ UNCHANGED <<run_vars, gen, saver>>

\* the task has finished: its done callback is scheduled on the event loop
Done(task, outcome) ==
    [task EXCEPT !.pc = "done", !.outcome = outcome, !.callback = "scheduled"]

\* _persist_battle_run, lines 116-204: the upload fails and the task raises
\* RuntimeError (line 128), or it succeeds and the task awaits the create
PersistUpload(b) ==
    /\ battle.tasks[b].pc = "upload"
    /\ \/ battle' = [battle EXCEPT !.tasks[b].pc = "create"]
       \/ battle' = [battle EXCEPT !.tasks[b] = Done(@, "raised")]
    /\ UNCHANGED <<run_vars, gen, saver>>

\* the database carries out parsebattlerun.create, or fails to
DbCreate(b) ==
    /\ battle.tasks[b].pc = "create"
    /\ \/ battle' = [battle EXCEPT !.runs = @ \cup {b}, !.tasks[b].pc = "created"]
       \/ battle' = [battle EXCEPT !.tasks[b].pc = "create_failed"]
    /\ UNCHANGED <<run_vars, gen, saver>>

\* lines 190-206: the await of create returns, or raises and the handler of
\* line 205 logs the exception; either way the task returns
PersistReturn(b) ==
    /\ battle.tasks[b].pc \in {"created", "create_failed"}
    /\ battle' = [battle EXCEPT !.tasks[b] = Done(@, "returned")]
    /\ UNCHANGED <<run_vars, gen, saver>>

\* line 728: the event loop runs the done callback
DoneCallback(b) ==
    /\ battle.tasks[b].callback = "scheduled"
    /\ battle' = [battle EXCEPT !.tasks[b].callback = "ran",
                                !.registry = Popped(@, b)]
    /\ UNCHANGED <<run_vars, gen, saver>>

\* a request to /battle-feedback arrives; lines 805: the first find_unique is
\* answered by the database
Find1(r) ==
    /\ battle.requests[r].pc = "idle"
    /\ \E b \in Battles :
          battle' = [battle EXCEPT !.requests[r] =
                        [@ EXCEPT !.pc = "lookup",
                                  !.battle_id = {b},
                                  !.row = battle.runs \cap {b}]]
    /\ UNCHANGED <<run_vars, gen, saver>>

\* _ensure_battle_persisted returns to submit_battle_feedback, which answers
\* 404 for None (lines 739-740) and goes on otherwise
Ensured(request, row) ==
    IF row = {}
    THEN [request EXCEPT !.ensured = "none", !.status = "404", !.pc = "done"]
    ELSE [request EXCEPT !.ensured = "battle", !.pc = "find_feedback"]

\* lines 806-814: the coroutine resumes with the answer; without a row it
\* looks the task up in the registry and, if there is one, starts to wait
Lookup(r) ==
    /\ battle.requests[r].pc = "lookup"
    /\ LET request == battle.requests[r]
           pending == battle.registry \cap request.battle_id
           here == [request EXCEPT !.persisted_at_return = request.battle_id \subseteq battle.runs]
       IN  battle' = [battle EXCEPT !.requests[r] =
                         IF request.row /= {}
                         THEN Ensured(here, request.row)
                         ELSE IF pending = {}
                              THEN Ensured(here, {})
                              ELSE [request EXCEPT !.pending = pending, !.pc = "wait"]]
    /\ UNCHANGED <<run_vars, gen, saver>>

\* lines 814-818: wait_for(shield(task), timeout) ends because the task has
\* finished, by returning or by raising, or because the timeout has expired;
\* the shield keeps the task running in the latter case
Wait(r) ==
    /\ battle.requests[r].pc = "wait"
    /\ \E b \in battle.requests[r].pending :
          battle' = [battle EXCEPT !.requests[r] =
                        [@ EXCEPT !.waited = IF battle.tasks[b].pc = "done"
                                             THEN battle.tasks[b].outcome
                                             ELSE "timeout",
                                  !.pc = "find2"]]
    /\ UNCHANGED <<run_vars, gen, saver>>

\* line 820: the second find_unique, whose answer is returned
Find2(r) ==
    /\ battle.requests[r].pc = "find2"
    /\ LET request == battle.requests[r]
           row == battle.runs \cap request.battle_id
       IN  battle' = [battle EXCEPT !.requests[r] =
                         Ensured([request EXCEPT !.row = row,
                                                 !.persisted_at_return = row /= {}], row)]
    /\ UNCHANGED <<run_vars, gen, saver>>

\* line 778: battlefeedback.find_unique by battleId is answered
FindFeedback(r) ==
    /\ battle.requests[r].pc = "find_feedback"
    /\ \E b \in battle.requests[r].battle_id :
          battle' = [battle EXCEPT !.requests[r] =
                        [@ EXCEPT !.existing = battle.feedback[b] > 0, !.pc = "write"]]
    /\ UNCHANGED <<run_vars, gen, saver>>

\* lines 780-791: update of the record found, or create; battleId is a unique
\* key (find_unique and update address the record by it), so create raises
\* when a record of the battle exists and the request fails
WriteFeedback(r) ==
    /\ battle.requests[r].pc = "write"
    /\ \E b \in battle.requests[r].battle_id :
          IF battle.requests[r].existing
          THEN battle' = [battle EXCEPT !.requests[r].status = "200", !.requests[r].pc = "done"]
          ELSE IF battle.feedback[b] = 0
               THEN battle' = [battle EXCEPT !.feedback[b] = 1,
                                            !.requests[r].status = "200",
                                            !.requests[r].pc = "done"]
               ELSE battle' = [battle EXCEPT !.requests[r].status = "500",
                                            !.requests[r].pc = "done"]
    /\ UNCHANGED <<run_vars, gen, saver>>

NextBattle ==
    \/ \E b \in Battles : CompareParsers(b)
    \/ \E b \in Battles : PersistUpload(b)
    \/ \E b \in Battles : DbCreate(b)
    \/ \E b \in Battles : PersistReturn(b)
    \/ \E b \in Battles : DoneCallback(b)
    \/ \E r \in Requests : Find1(r)
    \/ \E r \in Requests : Lookup(r)
    \/ \E r \in Requests : Wait(r)
    \/ \E r \in Requests : Find2(r)
    \/ \E r \in Requests : FindFeedback(r)
    \/ \E r \in Requests : WriteFeedback(r)

SpecBattle == InitBattle /\ [][NextBattle]_vars

\* ----------------------------------------------------------------- claims
HoldsProvider(t) ==
    exec[t].pc \in {"ingest", "query", "acquire_ragas", "evaluate", "release_ragas",
                    "release_provider"}

HoldsRagas(t) == exec[t].pc \in {"evaluate", "release_ragas"}

ProviderHolders(p) == {t \in AllTasks : Provider(t) = p /\ HoldsProvider(t)}
RagasHolders == {t \in AllTasks : HoldsRagas(t)}

Finished(t) == exec[t].pc \in {"done", "collected"}

\* C1: at every moment at most max_per_provider_workers Tasks hold the permit of
\* any one provider and at most max_ragas_workers Tasks, over all providers,
\* hold the scoring permit
C1_ConcurrencyBound ==
    /\ \A p \in Range(provider_names) :
          Cardinality(ProviderHolders(p)) <= execution_config.max_per_provider_workers
    /\ Cardinality(RagasHolders) <= execution_config.max_ragas_workers

\* C1 witness: a provider whose permits are all taken while a Task of it waits,
\* in a run with more than one worker
C1_Witness ==
    /\ execution_config.max_total_workers > 1
    /\ \E t \in AllTasks :
          /\ exec[t].pc = "acquire_provider"
          /\ Cardinality(ProviderHolders(Provider(t))) =
                execution_config.max_per_provider_workers
          /\ Cardinality(RagasHolders) = execution_config.max_ragas_workers

\* C2: every permit is released exactly once on every exit path: each
\* semaphore's value is its initial value minus the number of Tasks that hold a
\* permit of it, so it never exceeds its initial value and is back at it once
\* no Task holds a permit
C2_PermitsBalanced ==
    main_pc /= "start" =>
        /\ \A p \in Range(provider_names) :
              provider_semaphores[p] =
                  execution_config.max_per_provider_workers - Cardinality(ProviderHolders(p))
        /\ ragas_semaphore = execution_config.max_ragas_workers - Cardinality(RagasHolders)
        /\ (\A t \in Range(tasks_to_run) : Finished(t)) =>
              /\ \A p \in Range(provider_names) :
                    provider_semaphores[p] = execution_config.max_per_provider_workers
              /\ ragas_semaphore = execution_config.max_ragas_workers

\* C2 witness: every Task has finished, one by each exit path of a run with two
\* failures: success, ingest failure, query failure
C2_Witness ==
    /\ tasks_to_run /= <<>>
    /\ \A t \in Range(tasks_to_run) : Finished(t)
    /\ \E t \in AllTasks : Finished(t) /\ exec[t].failed_phase = "none"
    /\ \E t \in AllTasks : Finished(t) /\ exec[t].failed_phase = "ingest"
    /\ \E t \in AllTasks : Finished(t) /\ exec[t].failed_phase = "query"

\* the ProviderResults of the returned RunSummary, as <<provider, doc, result>>
SummaryResultsOf(run_summary) ==
    UNION {{<<p, run_summary.results[i].doc_id, run_summary.results[i].providers[p]>> :
              p \in DOMAIN run_summary.results[i].providers} : i \in DOMAIN run_summary.results}

SummaryResults == SummaryResultsOf(summary)

\* C3: with resume disabled, the returned RunSummary holds one DocumentResult
\* per document, which maps every configured provider to a ProviderResult with
\* status success or error
C3_OneResultPerPair ==
    (main_pc = "returned" /\ ~resume_enabled) =>
        /\ Len(summary.results) = Len(docs)
        /\ \A i \in DOMAIN docs :
              /\ summary.results[i].doc_id = docs[i]
              /\ \A p \in Range(provider_names) :
                    /\ p \in DOMAIN summary.results[i].providers
                    /\ summary.results[i].providers[p].status \in {"success", "error"}

\* C4: execute never raises for a failure of ingest, of a query or of scoring:
\* the finished call holds a ProviderResult whose status is success or error,
\* error exactly when a phase failed, and then with a non-empty message
C4_ExecuteNeverRaises ==
    \A t \in AllTasks :
        (Finished(t) /\ exec[t].failed_phase /= "dispatch") =>
            /\ exec[t].future = "result"
            /\ exec[t].result.status \in {"success", "error"}
            /\ (exec[t].result.status = "error") <=>
                  (exec[t].failed_phase \in {"ingest", "query", "score"})
            /\ exec[t].result.status = "error" =>
                  /\ exec[t].result.error /= None
                  /\ Len(exec[t].result.error) > 0

\* C4 witness: a call whose scoring failed on every attempt has returned
C4_Witness ==
    \E t \in AllTasks :
        /\ Finished(t)
        /\ exec[t].failed_phase = "score"
        /\ exec[t].result.status = "error"

\* the last score map the evaluator returned to a Task, as execute keeps it
FinalScores(t) == CleanedScores(exec[t].eval_log[Len(exec[t].eval_log)].scores)

\* the QuestionResults of a Task that ran alone and got `scores`
SoloQuestions(t, scores) ==
    [i \in DOMAIN questions_by_doc[Doc(t)] |->
        [QuestionResult(questions_by_doc[Doc(t)][i], Response(t, questions_by_doc[Doc(t)][i]))
            EXCEPT !.evaluation_scores = scores]]

\* a run in which exactly one Task failed, at ingest, and nothing else did
OneIngestFailure ==
    /\ main_pc = "returned"
    /\ Len(tasks_to_run) = Cardinality(AllTasks)
    /\ Cardinality({t \in AllTasks : exec[t].failed_phase = "ingest"}) = 1
    /\ \A t \in AllTasks : exec[t].failed_phase \in {"ingest", "none"}

\* C5: a failed Task changes no other Task: when exactly one Task fails ingest,
\* the RunSummary holds one ProviderResult per Task, one of them an error, and
\* every other Task's result is the success it gives when it runs alone
C5_FailureIsolation ==
    OneIngestFailure =>
        /\ Cardinality(SummaryResults) = Cardinality(AllTasks)
        /\ Cardinality({x \in SummaryResults : x[3].status = "error"}) = 1
        /\ Cardinality({x \in SummaryResults : x[3].status = "success"}) =
              Cardinality(AllTasks) - 1
        /\ \A t \in AllTasks :
              exec[t].failed_phase = "none" =>
                  \E x \in SummaryResults :
                      /\ x[1] = Provider(t) /\ x[2] = Doc(t)
                      /\ x[3].provider = Provider(t) /\ x[3].doc_id = Doc(t)
                      /\ x[3].status = "success"
                      /\ x[3].error = None
                      /\ x[3].index_id = IndexId(t)
                      /\ x[3].questions = SoloQuestions(t, FinalScores(t))
                      /\ \A m \in DOMAIN FinalScores(t) :
                            x[3].aggregated_scores[m] = FinalScores(t)[m]

\* C5 witness: such a run of three providers on two documents: six results,
\* five of them a success
C5_Witness ==
    /\ OneIngestFailure
    /\ Cardinality(AllTasks) = 6
    /\ Cardinality({x \in SummaryResults : x[3].status = "success"}) = 5
    /\ execution_config.max_total_workers > 1

\* C6: run_benchmark never raises for a failure of a Task or of its dispatch,
\* it goes on until it returns, and what it returns is a RunSummary
C6_AlwaysReturns ==
    /\ main_pc /= "raised"
    /\ main_pc /= "returned" => ENABLED Next
    /\ main_pc = "returned" =>
          /\ summary.num_docs = Len(docs)
          /\ summary.providers = provider_names
          /\ SummaryPath \in DOMAIN files

\* C6 witness: the run has returned although every Task ended with an error
C6_Witness ==
    /\ main_pc = "returned"
    /\ Len(tasks_to_run) > 1
    /\ \A t \in Range(tasks_to_run) :
          exec[t].future = "result" /\ exec[t].result.status = "error"

\* C7: a Task whose future raised is recorded under its document as a
\* ProviderResult with status error, and persisted
C7_DispatchFailureRecorded ==
    \A t \in AllTasks :
        (exec[t].pc = "collected" /\ exec[t].future = "exception") =>
            /\ Doc(t) \in DOMAIN doc_results_map
            /\ Provider(t) \in DOMAIN doc_results_map[Doc(t)]
            /\ doc_results_map[Doc(t)][Provider(t)].status = "error"
            /\ ProviderPath(Doc(t), Provider(t)) \in DOMAIN files

\* the kind label the specification gives to a failed phase
KindLabel(phase) == phase \o "_failed"

\* a Task whose execute has returned an error result
ReturnedError(t) ==
    /\ Finished(t)
    /\ exec[t].future = "result"
    /\ exec[t].result.status = "error"

\* C8 as stated: the error of an error ProviderResult carries the kind label of
\* the phase that failed, alone or in front of the exception's text
C8_KindLabel ==
    \A t \in AllTasks :
        ReturnedError(t) =>
            exec[t].result.error \in
                {KindLabel(exec[t].failed_phase),
                 KindLabel(exec[t].failed_phase) \o ": " \o exec[t].failed_exc.msg,
                 KindLabel(exec[t].failed_phase) \o ": " \o exec[t].failed_exc.type
                     \o ": " \o exec[t].failed_exc.msg}

\* C8 amended: an error ProviderResult carries the type name and the message of
\* the exception that ended the Task, and no label of the phase; it has no
\* questions and no scores, its index_id is set exactly when ingest returned,
\* and a scoring failure is the exception of the last of max_retries attempts
C8_ErrorText ==
    \A t \in AllTasks :
        ReturnedError(t) =>
            /\ exec[t].failed_phase \in {"ingest", "query", "score"}
            /\ exec[t].result.error =
                  exec[t].failed_exc.type \o ": " \o exec[t].failed_exc.msg
            /\ exec[t].result.questions = <<>>
            /\ exec[t].result.aggregated_scores = <<>>
            /\ (exec[t].result.index_id = None) <=> (exec[t].failed_phase = "ingest")
            /\ exec[t].failed_phase = "score" =>
                  /\ Len(exec[t].eval_log) = max_retries
                  /\ exec[t].eval_log[max_retries].kind = "raise"
                  /\ exec[t].eval_log[max_retries].exc = exec[t].failed_exc

\* C8 witness: a Task ended by a query that raised after ingest had returned
C8_Witness ==
    \E t \in AllTasks :
        /\ ReturnedError(t)
        /\ exec[t].failed_phase = "query"
        /\ exec[t].result.index_id = IndexId(t)

\* a Task whose execute has returned a success result
ReturnedSuccess(t) ==
    /\ Finished(t)
    /\ exec[t].future = "result"
    /\ exec[t].result.status = "success"

\* the QuestionResults answer the input Questions one for one, in their order
OnePerQuestion(t) ==
    /\ Len(exec[t].result.questions) = Len(questions_by_doc[Doc(t)])
    /\ \A i \in DOMAIN questions_by_doc[Doc(t)] :
          /\ exec[t].result.questions[i].question_id = questions_by_doc[Doc(t)][i].question_id
          /\ exec[t].result.questions[i].question = questions_by_doc[Doc(t)][i].question
          /\ exec[t].result.questions[i].ground_truth = questions_by_doc[Doc(t)][i].ground_truth

\* C9 as stated: a success has one QuestionResult per input Question, in order,
\* each with a non-empty evaluation_scores equal to that of every other
C9_ScoresNonEmpty ==
    \A t \in AllTasks :
        ReturnedSuccess(t) =>
            /\ OnePerQuestion(t)
            /\ \A i \in DOMAIN exec[t].result.questions :
                  /\ exec[t].result.questions[i].evaluation_scores /= <<>>
                  /\ \A j \in DOMAIN exec[t].result.questions :
                        exec[t].result.questions[i].evaluation_scores =
                            exec[t].result.questions[j].evaluation_scores

\* C9 amended: a success has one QuestionResult per input Question, in order,
\* each with the score map of the last scoring call (NaN as 0) as its
\* evaluation_scores, which is empty exactly when that map is empty
C9_ScoresCopied ==
    \A t \in AllTasks :
        ReturnedSuccess(t) =>
            /\ OnePerQuestion(t)
            /\ exec[t].eval_log /= <<>>
            /\ exec[t].eval_log[Len(exec[t].eval_log)].kind = "return"
            /\ \A i \in DOMAIN exec[t].result.questions :
                  /\ DOMAIN exec[t].result.questions[i].evaluation_scores =
                        DOMAIN exec[t].eval_log[Len(exec[t].eval_log)].scores
                  /\ \A m \in DOMAIN exec[t].eval_log[Len(exec[t].eval_log)].scores :
                        exec[t].result.questions[i].evaluation_scores[m] =
                            IF exec[t].eval_log[Len(exec[t].eval_log)].scores[m] = NaN
                            THEN 0
                            ELSE exec[t].eval_log[Len(exec[t].eval_log)].scores[m]
                  /\ \A j \in DOMAIN exec[t].result.questions :
                        exec[t].result.questions[i].evaluation_scores =
                            exec[t].result.questions[j].evaluation_scores

\* C9 witness: a success over MaxQuestions questions with a score for each metric
C9_Witness ==
    \E t \in AllTasks :
        /\ ReturnedSuccess(t)
        /\ Len(exec[t].result.questions) = MaxQuestions
        /\ DOMAIN exec[t].result.questions[MaxQuestions].evaluation_scores = Metrics

\* the scoring service answered all max_retries calls of a Task with a score map
ThreeReturns(t) ==
    /\ Finished(t)
    /\ Len(exec[t].eval_log) = max_retries
    /\ \A k \in 1..max_retries : exec[t].eval_log[k].kind = "return"

\* some metric of the k-th score map is NaN
NaNAt(t, k) == \E m \in DOMAIN exec[t].eval_log[k].scores : exec[t].eval_log[k].scores[m] = NaN

\* C10: NaN on the first two calls and none on the third gives a success with
\* the third call's values; NaN on all three calls gives a success with 0 for
\* the NaN metrics of the last call and its other metrics unchanged
C10_NaNHandling ==
    \A t \in AllTasks :
        (ThreeReturns(t) /\ NaNAt(t, 1) /\ NaNAt(t, 2)) =>
            /\ exec[t].future = "result"
            /\ exec[t].result.status = "success"
            /\ \A m \in DOMAIN exec[t].eval_log[max_retries].scores :
                  /\ m \in DOMAIN exec[t].result.aggregated_scores
                  /\ exec[t].result.aggregated_scores[m] =
                        IF exec[t].eval_log[max_retries].scores[m] = NaN
                        THEN 0
                        ELSE exec[t].eval_log[max_retries].scores[m]
                  /\ \A i \in DOMAIN exec[t].result.questions :
                        exec[t].result.questions[i].evaluation_scores[m] =
                            exec[t].result.aggregated_scores[m]

\* C10 witness: three calls with a NaN each, the last with a metric that is not
C10_Witness ==
    \E t \in AllTasks :
        /\ ThreeReturns(t)
        /\ \A k \in 1..max_retries : NaNAt(t, k)
        /\ \E m \in DOMAIN exec[t].eval_log[max_retries].scores :
              exec[t].eval_log[max_retries].scores[m] = 8
        /\ exec[t].result.status = "success"

\* the calls of one kind in a Task's log
CallsOf(t, call) == SelectSeq(exec[t].call_log, LAMBDA c : c.call = call)

\* C11: the scoring service is called at most max_retries times per Task, raised
\* errors and NaN answers drawing on the same budget; every call but the last
\* raised or answered with a NaN; three raising calls end the Task with status
\* error, the error being that of the last call
C11_RetryBudget ==
    \A t \in AllTasks :
        /\ Len(exec[t].eval_log) <= max_retries
        /\ Len(CallsOf(t, "score")) = Len(exec[t].eval_log)
        /\ \A k \in 1..(Len(exec[t].eval_log) - 1) :
              \/ exec[t].eval_log[k].kind = "raise"
              \/ \E m \in DOMAIN exec[t].eval_log[k].scores : exec[t].eval_log[k].scores[m] = NaN
        /\ (/\ Finished(t)
            /\ Len(exec[t].eval_log) = max_retries
            /\ \A k \in 1..max_retries : exec[t].eval_log[k].kind = "raise") =>
              /\ exec[t].future = "result"
              /\ exec[t].result.status = "error"
              /\ exec[t].failed_phase = "score"
              /\ exec[t].failed_exc = exec[t].eval_log[max_retries].exc

\* C11 witness: a Task whose scoring was retried once after a raised error and
\* once after a NaN answer
C11_Witness ==
    \E t \in AllTasks :
        /\ Finished(t)
        /\ Len(exec[t].eval_log) = max_retries
        /\ exec[t].eval_log[1].kind = "raise"
        /\ exec[t].eval_log[2].kind = "return"
        /\ Len(CallsOf(t, "score")) = max_retries

\* C12: a second run with resume enabled on the run directory of a completed
\* first run skips every Task and calls no ingest, no query and no scoring
C12_SecondRunSkipsAll ==
    (resume_enabled /\ Len(prior_runs) >= 1 /\ main_pc /= "start") =>
        /\ tasks_to_run = <<>>
        /\ tasks_skipped = Cardinality(AllTasks)
        /\ \A t \in AllTasks : exec[t].call_log = <<>>

\* C13: the RunSummary a second run with resume enabled returns lists the same
\* DocumentResults, and so the same averages, as the first run's
C13_SameDocumentResults ==
    (resume_enabled /\ Len(prior_runs) >= 1 /\ main_pc = "returned") =>
        /\ summary.results = prior_runs[Len(prior_runs)].results
        /\ summary.overall_winner = prior_runs[Len(prior_runs)].overall_winner

\* the Tasks the resume filter left out of this run, whose artifact is whole
SkippedTasks ==
    {t \in AllTasks \ Range(tasks_to_run) : files[ProviderPath(Doc(t), Provider(t))] /= Corrupt}

\* C14: the DocumentResult of a Document holds the persisted ProviderResult of
\* each of its skipped Tasks, a skipped success counts in the averages of the
\* RunSummary, and a skipped Task's artifact is not written again
C14_SkippedIncluded ==
    (resume_enabled /\ main_pc = "returned") =>
        \A t \in SkippedTasks :
            /\ files[ProviderPath(Doc(t), Provider(t))] \in
                  {PriorResult(t)} \cup
                  {x[3] : x \in UNION {SummaryResultsOf(prior_runs[i]) : i \in DOMAIN prior_runs}}
            /\ \E i \in DOMAIN summary.results :
                  /\ summary.results[i].doc_id = Doc(t)
                  /\ Provider(t) \in DOMAIN summary.results[i].providers
                  /\ summary.results[i].providers[Provider(t)] =
                        files[ProviderPath(Doc(t), Provider(t))]
            /\ files[ProviderPath(Doc(t), Provider(t))] = PriorResult(t) =>
                  Provider(t) \in DOMAIN summary.overall_winner.provider_avg_scores

\* C15: the resume filter splits the Task list into to_run and skipped; with
\* resume disabled every Task is in to_run whatever the run directory holds;
\* with resume enabled a Task is skipped exactly when its artifact exists,
\* whatever the artifact holds
C15_ResumeFilter ==
    main_pc /= "start" =>
        /\ Range(tasks_to_run) \subseteq AllTasks
        /\ Cardinality(Range(tasks_to_run)) = Len(tasks_to_run)
        /\ Len(tasks_to_run) + tasks_skipped = Cardinality(AllTasks)
        /\ ~resume_enabled => Range(tasks_to_run) = AllTasks
        /\ resume_enabled =>
              \A t \in AllTasks :
                  /\ t \notin Range(tasks_to_run) =>
                        /\ ProviderPath(Doc(t), Provider(t)) \in DOMAIN files
                        /\ exec[t] = IdleExec
                  /\ (t \in Range(tasks_to_run) /\ exec[t].pc /= "collected") =>
                        ProviderPath(Doc(t), Provider(t)) \notin DOMAIN files

\* C15 witness: a run with resume enabled that skips a Task whose artifact is
\* not a whole ProviderResult and runs the other Task
C15_Witness ==
    /\ resume_enabled
    /\ main_pc = "collecting"
    /\ Len(tasks_to_run) = 1
    /\ \E t \in AllTasks \ Range(tasks_to_run) :
          files[ProviderPath(Doc(t), Provider(t))] = Corrupt

\* C16: the call returns one Task per (Document, provider) pair, Documents in
\* input order outermost and providers in configured order innermost, each
\* with the question list of its Document; it raises and returns no list
\* exactly when a Document has no entry in the question map
C16_TaskList ==
    gen.pc \in {"returned", "raised"} =>
        IF \A i \in DOMAIN gen.docs : gen.docs[i] \in DOMAIN gen.questions_by_doc
        THEN /\ gen.pc = "returned"
             /\ Len(gen.tasks) = Len(gen.docs) * Len(gen.adapters)
             /\ \A i \in DOMAIN gen.docs, j \in DOMAIN gen.adapters :
                   gen.tasks[(i - 1) * Len(gen.adapters) + j] =
                       <<gen.adapters[j], gen.docs[i], gen.questions_by_doc[gen.docs[i]]>>
             /\ \A d \in Range(gen.docs), p \in Range(gen.adapters) :
                   Cardinality({k \in DOMAIN gen.tasks :
                                  gen.tasks[k][1] = p /\ gen.tasks[k][2] = d}) = 1
        ELSE /\ gen.pc = "raised"
             /\ gen.tasks = <<>>

\* C16 witness: the call has returned the six Tasks of two Documents and three
\* providers, the Documents with different question lists
C16_Witness ==
    /\ gen.pc = "returned"
    /\ Len(gen.docs) = 2
    /\ Len(gen.adapters) = 3
    /\ Len(gen.tasks) = 6
    /\ gen.tasks[1][3] /= gen.tasks[6][3]

\* the Documents of the RunSummary on which provider p succeeded with a score
\* for metric m
SuccessDocs(p, m) ==
    {i \in DOMAIN summary.results :
        /\ p \in DOMAIN summary.results[i].providers
        /\ summary.results[i].providers[p].status = "success"
        /\ m \in DOMAIN summary.results[i].providers[p].aggregated_scores}

\* the metrics provider p has a score for on some Document
ScoredMetrics(p) ==
    UNION {DOMAIN summary.results[i].providers[p].aggregated_scores :
             i \in {j \in DOMAIN summary.results :
                       /\ p \in DOMAIN summary.results[j].providers
                       /\ summary.results[j].providers[p].status = "success"}}

RECURSIVE SumOfDocs(_, _, _)
SumOfDocs(I, p, m) ==
    IF I = {}
    THEN 0
    ELSE LET i == CHOOSE x \in I : TRUE
         IN  summary.results[i].providers[p].aggregated_scores[m] + SumOfDocs(I \ {i}, p, m)

\* C17: the average of a provider and a metric in the RunSummary is the sum of
\* that metric over the Documents on which the provider succeeded, divided by
\* the number of those Documents; a provider without any success is absent
C17_AverageOverSuccesses ==
    main_pc = "returned" =>
        \A p \in Range(provider_names) :
            /\ p \in DOMAIN summary.overall_winner.provider_avg_scores <=> ScoredMetrics(p) /= {}
            /\ \A m \in ScoredMetrics(p) :
                  /\ m \in DOMAIN summary.overall_winner.provider_avg_scores[p]
                  /\ summary.overall_winner.provider_avg_scores[p][m] =
                        <<SumOfDocs(SuccessDocs(p, m), p, m), Cardinality(SuccessDocs(p, m))>>
            /\ ScoredMetrics(p) /= {} =>
                  DOMAIN summary.overall_winner.provider_avg_scores[p] = ScoredMetrics(p)

\* C17 witness: a provider with 6 on one Document and 8 on the other, mean
\* 14 / 2, next to a provider that failed on one Document and has the mean of
\* the other alone
C17_Witness ==
    /\ main_pc = "returned"
    /\ Len(summary.results) = 2
    /\ \E p, q \in Range(provider_names) :
          /\ \A i \in 1..2 : {p, q} \subseteq DOMAIN summary.results[i].providers
          /\ summary.results[1].providers[p].status = "success"
          /\ summary.results[2].providers[p].status = "success"
          /\ summary.results[1].providers[p].aggregated_scores["faithfulness"] = 6
          /\ summary.results[2].providers[p].aggregated_scores["faithfulness"] = 8
          /\ summary.overall_winner.provider_avg_scores[p]["faithfulness"] = <<14, 2>>
          /\ summary.results[1].providers[q].status = "error"
          /\ summary.results[2].providers[q].status = "success"
          /\ summary.overall_winner.provider_avg_scores[q]["faithfulness"][2] = 1

\* the place of a call in the order of the phases
PhaseRank(call) == CASE call = "ingest" -> 1 [] call = "query" -> 2 [] call = "score" -> 3

\* C18: within a Task the calls come phase by phase: one ingest call, then,
\* only after it returned, one query per Question in the order of the
\* Questions, then, only after the last query returned, the scoring calls
C18_PhaseOrder ==
    \A t \in AllTasks :
        /\ \A i, j \in DOMAIN exec[t].call_log :
              i < j => PhaseRank(exec[t].call_log[i].call) <= PhaseRank(exec[t].call_log[j].call)
        /\ Len(CallsOf(t, "ingest")) <= 1
        /\ Len(CallsOf(t, "query")) <= Len(questions_by_doc[Doc(t)])
        /\ \A k \in DOMAIN CallsOf(t, "query") :
              CallsOf(t, "query")[k].question_id = questions_by_doc[Doc(t)][k].question_id
        /\ CallsOf(t, "query") /= <<>> =>
              /\ Len(CallsOf(t, "ingest")) = 1
              /\ exec[t].result.index_id = IndexId(t)
        /\ CallsOf(t, "score") /= <<>> =>
              /\ Len(CallsOf(t, "ingest")) = 1
              /\ exec[t].result.index_id = IndexId(t)
              /\ Len(CallsOf(t, "query")) = Len(questions_by_doc[Doc(t)])
              /\ exec[t].failed_phase \notin {"ingest", "query"}

\* C18 witness: a Task that ingested, queried MaxQuestions questions and called
\* the scoring service more than once
C18_Witness ==
    \E t \in AllTasks :
        /\ Finished(t)
        /\ Len(CallsOf(t, "query")) = MaxQuestions
        /\ Len(CallsOf(t, "score")) > 1

\* C19: document aggregation and the RunSummary come only after the future of
\* every submitted Task has resolved and been collected, failures included:
\* before that the run has built no summary and written neither an aggregated
\* document nor the summary artifact
C19_AggregatesAfterAllTasks ==
    /\ main_pc \in {"aggregated", "returned"} =>
          /\ \A t \in Range(tasks_to_run) :
                exec[t].pc = "collected" /\ exec[t].future \in {"result", "exception"}
          /\ completed_count = Len(tasks_to_run)
          /\ Len(tasks_to_run) + tasks_skipped = Cardinality(AllTasks)
    /\ main_pc \in {"start", "collecting"} =>
          /\ summary = <<>>
          /\ prior_runs = <<>> =>
                /\ SummaryPath \notin DOMAIN files
                /\ \A d \in Range(docs) : AggregatedPath(d) \notin DOMAIN files

\* C19 witness: the run has returned its RunSummary after four Tasks of which
\* some failed and some succeeded
C19_Witness ==
    /\ main_pc = "returned"
    /\ Len(tasks_to_run) = 4
    /\ SummaryPath \in DOMAIN files
    /\ \E t \in AllTasks : exec[t].future = "exception"
    /\ \E t \in AllTasks : exec[t].future = "result" /\ exec[t].result.status = "error"
    /\ \E t \in AllTasks : exec[t].future = "result" /\ exec[t].result.status = "success"

\* the callers inside a write path (between the lock's acquire and release)
InsideWritePath == {c \in Callers : saver.callers[c].pc \in {"mkdir", "open", "dump", "unlock"}}

\* C20: at most one caller is inside a write path at any time; an artifact
\* that no caller is writing is the whole output of one save call, and an
\* artifact under write holds pieces of the writing call only
C20_WritesExclusive ==
    /\ Cardinality(InsideWritePath) <= 1
    /\ saver.write_lock = InsideWritePath
    /\ \A path \in DOMAIN saver.disk :
          \/ \E c \in Callers : saver.disk[path] = Dumped(c)
          \/ \E c \in InsideWritePath :
                /\ saver.callers[c].path = path
                /\ saver.callers[c].pc = "dump"
                /\ saver.disk[path] =
                      [k \in 1..Pieces |-> IF k <= saver.callers[c].written THEN <<c, k>> ELSE <<>>]

\* C20 witness: a caller is in the middle of rewriting an artifact another
\* caller wrote, while that caller waits for the lock to write it again
C20_Witness ==
    \E c, d \in Callers :
        /\ c /= d
        /\ saver.callers[c].pc = "dump"
        /\ saver.callers[c].written = 1
        /\ saver.callers[d].pc = "lock"
        /\ saver.callers[d].path = saver.callers[c].path
        /\ \E path \in DOMAIN saver.disk : saver.disk[path] = Dumped(d)

\* a Document every Task of which ran in this run and returned status error
AllFailed(d) ==
    /\ provider_names /= <<>>
    /\ \A p \in Range(provider_names) :
          /\ <<p, d>> \in Range(tasks_to_run)
          /\ exec[<<p, d>>].future = "result"
          /\ exec[<<p, d>>].result.status = "error"

\* C21: a Document on which every provider's Task returned status error still
\* has its DocumentResult in the RunSummary and in its aggregated artifact; the
\* DocumentResult's providers map holds the error results, its per-provider
\* score summary is empty, and no cross-document average counts the Document
C21_AllErrorDocument ==
    main_pc = "returned" =>
        /\ \A d \in Range(docs) :
              AllFailed(d) =>
                 \E i \in DOMAIN summary.results :
                    /\ summary.results[i].doc_id = d
                    /\ summary.results[i].providers =
                          [p \in Range(provider_names) |-> exec[<<p, d>>].result]
                    /\ summary.results[i].winner.provider_scores = <<>>
                    /\ AggregatedPath(d) \in DOMAIN files
                    /\ files[AggregatedPath(d)] = summary.results[i]
                    /\ files[SummaryPath].results[i] = summary.results[i]
                    /\ \A p \in Range(provider_names) :
                          /\ ProviderPath(d, p) \in DOMAIN files
                          /\ files[ProviderPath(d, p)] = exec[<<p, d>>].result
        /\ \A p \in DOMAIN summary.overall_winner.provider_avg_scores :
              \A m \in DOMAIN summary.overall_winner.provider_avg_scores[p] :
                 /\ summary.overall_winner.provider_avg_scores[p][m][2] <=
                       Cardinality({d \in Range(docs) : ~AllFailed(d)})
                 /\ \A i \in SuccessDocs(p, m) : ~AllFailed(summary.results[i].doc_id)

\* C21 witness: a run of two providers in which both Tasks of the first
\* Document returned status error and the second Document was scored
C21_Witness ==
    /\ main_pc = "returned"
    /\ Len(provider_names) = 2
    /\ Len(docs) = 2
    /\ AllFailed(docs[1])
    /\ ~AllFailed(docs[2])
    /\ Len(summary.results) = 2
    /\ \E p \in DOMAIN summary.overall_winner.provider_avg_scores :
          summary.overall_winner.provider_avg_scores[p]["faithfulness"][2] = 1

\* C22: with resume disabled and at least one provider the RunSummary lists
\* exactly one DocumentResult per input Document, in the order of the
\* Documents, and its num_docs is the number of input Documents
C22_OneDocumentResultPerDocument ==
    (main_pc = "returned" /\ ~resume_enabled /\ provider_names /= <<>>) =>
        /\ summary.num_docs = Len(docs)
        /\ Len(summary.results) = Len(docs)
        /\ \A i \in DOMAIN summary.results : summary.results[i].doc_id = docs[i]

\* C22 seen apart from Tasks whose future raised: the same statement for the
\* runs in which every Task returned a ProviderResult
C22_WhenEveryTaskReturned ==
    (/\ main_pc = "returned" /\ ~resume_enabled /\ provider_names /= <<>>
     /\ \A t \in Range(tasks_to_run) : exec[t].future = "result") =>
        /\ summary.num_docs = Len(docs)
        /\ Len(summary.results) = Len(docs)
        /\ \A i \in DOMAIN summary.results : summary.results[i].doc_id = docs[i]

\* the Tasks of the run that have not returned yet
Unfinished == {t \in Range(tasks_to_run) : ~Finished(t)}

\* a Task that waits for a worker of the pool, for a permit of its provider or
\* for a permit of the scoring service, none being free
Blocked(t) ==
    \/ exec[t].pc = "queued" /\
          Cardinality({u \in AllTasks : Running(u)}) >= execution_config.max_total_workers
    \/ exec[t].pc = "acquire_provider" /\ provider_semaphores[Provider(t)] = 0
    \/ exec[t].pc = "acquire_ragas" /\ ragas_semaphore = 0

\* while Tasks are unfinished one of them can take a step
SomeTaskCanStep ==
    (main_pc = "collecting" /\ Unfinished /= {}) => \E t \in Unfinished : ~Blocked(t)

\* C23: no deadlock. For every W, P, K >= 1, when every ingest, query and
\* scoring call returns or raises, there is never a state in which all
\* unfinished Tasks are blocked (on a worker, a provider permit or the
\* scoring permit), and every started run terminates with every submitted
\* Task finished, with status success or error or with a raised future
C23_NoDeadlock ==
    /\ []SomeTaskCanStep
    /\ (main_pc = "collecting") ~>
          (main_pc = "returned" /\ \A t \in Range(tasks_to_run) : Finished(t))

\* C23 witness: as many Tasks in flight as there are workers, one holding the
\* only scoring permit, one waiting for it, and a third Task still queued
C23_Witness ==
    /\ main_pc = "collecting"
    /\ execution_config.max_total_workers >= 2
    /\ ragas_semaphore = 0
    /\ \E t, u, v \in Unfinished :
          /\ exec[t].pc = "evaluate"
          /\ Blocked(u) /\ exec[u].pc = "acquire_ragas"
          /\ Blocked(v) /\ exec[v].pc = "queued"

\* the places in a Task's permit log of one operation on one semaphore
PermitsOf(t, op, semaphore) ==
    {i \in DOMAIN exec[t].permit_log :
        exec[t].permit_log[i].op = op /\ exec[t].permit_log[i].semaphore = semaphore}

\* by its log a Task has acquired a permit of the semaphore and not released it
HasPermit(t, semaphore) ==
    PermitsOf(t, "acquire", semaphore) /= {} /\ PermitsOf(t, "release", semaphore) = {}

\* C24: permit nesting. A Task acquires its provider permit before its ingest
\* call and releases it after its last service call; it acquires the scoring
\* permit once, after its last query, keeps it across all scoring attempts and
\* releases it before the provider permit; so a Task that holds the scoring
\* permit holds its provider permit too
C24_PermitNesting ==
    \A t \in AllTasks :
        LET log == exec[t].permit_log
            calls == exec[t].call_log
        IN  /\ \A semaphore \in {"provider", "ragas"} :
                  /\ Cardinality(PermitsOf(t, "acquire", semaphore)) <= 1
                  /\ Cardinality(PermitsOf(t, "release", semaphore)) <= 1
                  /\ \A i \in PermitsOf(t, "release", semaphore) :
                        \E j \in PermitsOf(t, "acquire", semaphore) : j < i
            /\ HasPermit(t, "provider") <=> HoldsProvider(t)
            /\ HasPermit(t, "ragas") <=> HoldsRagas(t)
            /\ HasPermit(t, "ragas") => HasPermit(t, "provider")
            /\ calls /= <<>> => PermitsOf(t, "acquire", "provider") /= {}
            /\ \A i \in PermitsOf(t, "acquire", "provider") : i = 1 /\ log[i].calls = 0
            /\ \A i \in PermitsOf(t, "release", "provider") :
                  /\ i = Len(log)
                  /\ log[i].calls = Len(calls)
                  /\ PermitsOf(t, "acquire", "ragas") /= {} =>
                        \E j \in PermitsOf(t, "release", "ragas") : j < i
            /\ \A i \in PermitsOf(t, "acquire", "ragas") :
                  /\ i = 2
                  /\ log[i].calls = 1 + Len(questions_by_doc[Doc(t)])
                  /\ Len(CallsOf(t, "query")) = Len(questions_by_doc[Doc(t)])
                  /\ \A k \in 1..log[i].calls : calls[k].call /= "score"
            /\ \A k \in DOMAIN calls :
                  calls[k].call = "score" =>
                     /\ \E i \in PermitsOf(t, "acquire", "ragas") : log[i].calls < k
                     /\ \A i \in PermitsOf(t, "release", "ragas") : k <= log[i].calls

\* C24 witness: a Task that took the scoring permit once, called the scoring
\* service max_retries times under it and gave it back before it gave back its
\* provider permit
C24_Witness ==
    \E t \in AllTasks :
        /\ Finished(t)
        /\ Len(exec[t].permit_log) = 4
        /\ Len(CallsOf(t, "score")) = max_retries
        /\ exec[t].permit_log[2].calls + max_retries = exec[t].permit_log[3].calls

\* C25: a failure short-circuits the Task. Once its ingest call has failed the
\* Task makes no query and no scoring call; once a query call has failed it
\* makes no further query and no scoring call; in both cases it never
\* acquires the scoring permit
C25_ShortCircuit ==
    \A t \in AllTasks :
        LET calls == exec[t].call_log
        IN  /\ exec[t].failed_phase = "ingest" =>
                  /\ Len(calls) = 1
                  /\ calls[1].call = "ingest"
            /\ exec[t].failed_phase = "query" =>
                  /\ calls /= <<>>
                  /\ calls[Len(calls)].call = "query"
                  /\ CallsOf(t, "score") = <<>>
                  /\ Len(CallsOf(t, "query")) <= Len(questions_by_doc[Doc(t)])
            /\ exec[t].failed_phase \in {"ingest", "query"} =>
                  /\ PermitsOf(t, "acquire", "ragas") = {}
                  /\ exec[t].pc \in {"release_provider", "done", "collected"}
                  /\ Finished(t) =>
                        exec[t].future = "result" /\ exec[t].result.status = "error"

\* C25 witness: a Task of MaxQuestions questions whose first query failed and
\* which returned after that single query
C25_Witness ==
    \E t \in AllTasks :
        /\ Finished(t)
        /\ Len(questions_by_doc[Doc(t)]) = MaxQuestions
        /\ exec[t].failed_phase = "query"
        /\ Len(exec[t].call_log) = 2
        /\ exec[t].result.status = "error"

\* the ProviderResults of the run: those the Tasks hold, those the Scheduler
\* stored or saved, those the RunSummary lists
RunResults ==
    {exec[t].result : t \in {u \in AllTasks : exec[u].future \in {"running", "result"}}}
    \cup UNION {Range(doc_results_map[d]) : d \in DOMAIN doc_results_map}
    \cup {files[ProviderPath(Doc(t), Provider(t))] :
             t \in {u \in Range(tasks_to_run) : exec[u].pc = "collected" /\ exec[u].future = "result"}}
    \cup (IF main_pc = "returned" THEN {x[3] : x \in SummaryResults} ELSE {})

\* C26: no partial success inside a Task. A ProviderResult that has not
\* status success, wherever it is held, stored, saved or listed, has no
\* QuestionResult and no aggregated score, also when queries had succeeded
\* before the failure and when scoring failed after every query succeeded
C26_NoPartialSuccess ==
    \A r \in RunResults :
        /\ r.status \in {"pending", "error", "success"}
        /\ r.status /= "success" => r.questions = <<>> /\ r.aggregated_scores = <<>>

\* C26 witness: a stored error result of a Task that failed at its second
\* query, the first one having been answered
C26_Witness ==
    \E t \in AllTasks :
        /\ exec[t].pc = "collected"
        /\ exec[t].failed_phase = "query"
        /\ Len(CallsOf(t, "query")) = 2
        /\ Doc(t) \in DOMAIN doc_results_map
        /\ doc_results_map[Doc(t)][Provider(t)].status = "error"
        /\ doc_results_map[Doc(t)][Provider(t)].questions = <<>>

\* the score map the scoring service returned to a Task at its last call
LastScores(t) == exec[t].eval_log[Len(exec[t].eval_log)].scores

\* no duration_seconds among the evaluation_scores of a result's questions,
\* and none among the aggregated scores of a result that has not succeeded
DurationKeptApart(t) ==
    /\ \A i \in DOMAIN exec[t].result.questions :
          "duration_seconds" \notin DOMAIN exec[t].result.questions[i].evaluation_scores
    /\ exec[t].result.status /= "success" =>
          "duration_seconds" \notin DOMAIN exec[t].result.aggregated_scores

\* C27 as stated: a success has as aggregated_scores the score map the scoring
\* service returned plus the entry duration_seconds with the Task's duration,
\* whatever that map; an error has no duration_seconds among its scores, and
\* the evaluation_scores of the questions never have one
C27_ScoresPlusDuration ==
    \A t \in AllTasks :
        (Finished(t) /\ exec[t].future = "result") =>
            /\ DurationKeptApart(t)
            /\ exec[t].result.status = "success" =>
                  exec[t].result.aggregated_scores =
                     Put(LastScores(t), "duration_seconds", exec[t].result.duration_seconds)

\* C27 amended: a success has as aggregated_scores the score map of the last
\* scoring call with every NaN replaced by 0, plus the entry duration_seconds
\* with the Task's duration when that map is not empty; an empty map stays
\* empty, without duration_seconds. An error has no duration_seconds among its
\* scores, and the evaluation_scores of the questions never have one
C27_DurationUnlessEmpty ==
    \A t \in AllTasks :
        (Finished(t) /\ exec[t].future = "result") =>
            /\ DurationKeptApart(t)
            /\ exec[t].result.status = "success" =>
                  LET zeroed == [m \in DOMAIN LastScores(t) |->
                                    IF LastScores(t)[m] = NaN THEN 0 ELSE LastScores(t)[m]]
                  IN  exec[t].result.aggregated_scores =
                         IF LastScores(t) = <<>>
                         THEN <<>>
                         ELSE Put(zeroed, "duration_seconds", exec[t].result.duration_seconds)

\* C27 witness: a success on an empty score map, whose aggregated_scores is
\* empty although the Task has a duration
C27_Witness ==
    \E t \in AllTasks :
        /\ ReturnedSuccess(t)
        /\ LastScores(t) = <<>>
        /\ exec[t].result.aggregated_scores = <<>>
        /\ exec[t].result.duration_seconds = 2

\* no question is queried twice by a Task
QueriedAtMostOnce(t) ==
    \A i, j \in DOMAIN CallsOf(t, "query") :
        i /= j => CallsOf(t, "query")[i].question_id /= CallsOf(t, "query")[j].question_id

\* C28 as stated: every non-skipped Task is executed exactly once, its ingest
\* is called exactly once and each of its questions is queried at most once,
\* also when it ends with status error
C28_ExecutedExactlyOnce ==
    \A t \in Range(tasks_to_run) :
        /\ exec[t].executions <= 1
        /\ Len(CallsOf(t, "ingest")) <= 1
        /\ QueriedAtMostOnce(t)
        /\ Finished(t) => exec[t].executions = 1 /\ Len(CallsOf(t, "ingest")) = 1

\* C28 amended: the Scheduler never retries a Task. Every non-skipped Task is
\* submitted once and executed at most once: its ingest is called at most
\* once and each of its questions is queried at most once, also when it ends
\* with status error; a finished Task was executed and called ingest exactly
\* once, unless its dispatch failed: then it was not executed and made no call
C28_NeverRetried ==
    /\ \A i, j \in DOMAIN tasks_to_run : i /= j => tasks_to_run[i] /= tasks_to_run[j]
    /\ \A t \in AllTasks :
          /\ exec[t].executions <= 1
          /\ Len(CallsOf(t, "ingest")) <= 1
          /\ QueriedAtMostOnce(t)
          /\ exec[t].executions = 0 => exec[t].call_log = <<>>
          /\ t \notin Range(tasks_to_run) => exec[t].executions = 0
          /\ (Finished(t) /\ exec[t].failed_phase /= "dispatch") =>
                exec[t].executions = 1 /\ Len(CallsOf(t, "ingest")) = 1
          /\ (Finished(t) /\ exec[t].failed_phase = "dispatch") => exec[t].executions = 0

\* C28 witness: the run has collected a Task that returned status error after
\* its one ingest call, and has gone on to aggregate without running it again
C28_Witness ==
    /\ main_pc = "returned"
    /\ \E t \in Range(tasks_to_run) :
          /\ exec[t].pc = "collected"
          /\ exec[t].result.status = "error"
          /\ exec[t].executions = 1
          /\ Len(CallsOf(t, "ingest")) = 1

\* the step writes the artifact at the path: it creates it or changes it
Written(path) ==
    /\ path \in DOMAIN files'
    /\ path \notin DOMAIN files \/ files'[path] /= files[path]

\* the step in which the Scheduler collects the ProviderResult a Task returned
CollectsResult(t) ==
    /\ exec[t].pc = "done"
    /\ exec[t].future = "result"
    /\ exec'[t].pc = "collected"

\* a finished Task can be collected whatever the other Tasks are doing, and
\* the result of a collected Task is in its artifact
SavedAsCollected ==
    \A t \in Range(tasks_to_run) :
        /\ (main_pc = "collecting" /\ exec[t].pc = "done") => ENABLED Collect(t)
        /\ (exec[t].pc = "collected" /\ exec[t].future = "result") =>
              /\ ProviderPath(Doc(t), Provider(t)) \in DOMAIN files
              /\ files[ProviderPath(Doc(t), Provider(t))] = exec[t].result

\* a per-provider artifact is written in the step that collects its Task's
\* result, and in no other; that step writes it whatever the result's status;
\* a Task is collected once; aggregated artifacts are written in the step that
\* ends collection and the summary artifact in the step after it
SavedStepByStep ==
    /\ \A t \in AllTasks :
          /\ Written(ProviderPath(Doc(t), Provider(t))) =>
                /\ main_pc = "collecting"
                /\ t \in Range(tasks_to_run)
                /\ CollectsResult(t)
          /\ (t \in Range(tasks_to_run) /\ CollectsResult(t)) =>
                /\ ProviderPath(Doc(t), Provider(t)) \in DOMAIN files'
                /\ files'[ProviderPath(Doc(t), Provider(t))] = exec[t].result
                /\ exec[t].result.status \in {"success", "error"}
          /\ exec[t].pc = "collected" => exec'[t].pc = "collected" \/ main_pc' = "start"
    /\ \A d \in Range(docs) :
          Written(AggregatedPath(d)) =>
             /\ main_pc = "collecting" /\ main_pc' = "aggregated"
             /\ \A t \in Range(tasks_to_run) : exec[t].pc = "collected"
    /\ Written(SummaryPath) => main_pc = "aggregated" /\ main_pc' = "returned"

\* C29: incremental persistence. Each ProviderResult a finished Task returned,
\* success or error alike, is written to its per-provider artifact in the one
\* step in which the Scheduler collects it, which can happen as soon as the
\* Task has finished, whatever the other Tasks are doing and whatever the
\* order of submission; every per-provider artifact of the run is written
\* before any aggregated artifact and before the summary artifact
C29_IncrementalPersistence == []SavedAsCollected /\ [][SavedStepByStep]_vars

\* C29 witness: the error result of a Task submitted later is on disk while a
\* Task submitted before it has not finished
C29_Witness ==
    /\ main_pc = "collecting"
    /\ \E i, j \in DOMAIN tasks_to_run :
          /\ i < j
          /\ ~Finished(tasks_to_run[i])
          /\ exec[tasks_to_run[j]].pc = "collected"
          /\ exec[tasks_to_run[j]].result.status = "error"
          /\ ProviderPath(Doc(tasks_to_run[j]), Provider(tasks_to_run[j])) \in DOMAIN files
          /\ files[ProviderPath(Doc(tasks_to_run[j]), Provider(tasks_to_run[j]))] =
                exec[tasks_to_run[j]].result

\* the Tasks in flight: a worker has entered execute for them and execute has
\* not returned
InFlight == {t \in AllTasks : exec[t].future = "running"}

\* C30: at every moment at most W (max_total_workers) Tasks are in flight, a
\* Task being in flight from the moment a worker picks it up until it returns
\* its ProviderResult, also while it waits for its provider permit or for the
\* scoring permit; with W Tasks in flight no queued Task is picked up
C30_InFlightBound ==
    /\ Cardinality(InFlight) <= execution_config.max_total_workers
    /\ \A t \in AllTasks :
          /\ exec[t].pc \in {"acquire_provider", "acquire_ragas"} => t \in InFlight
          /\ t \in InFlight <=> (exec[t].executions = 1 /\ ~Finished(t))
          /\ (exec[t].pc = "queued" /\
               Cardinality(InFlight) = execution_config.max_total_workers) =>
                ~ENABLED StartTask(t)

\* C30 witness: W >= 2 Tasks in flight, one of them waiting for the permit of
\* its provider, while another Task waits in the queue
C30_Witness ==
    /\ execution_config.max_total_workers >= 2
    /\ Cardinality(InFlight) = execution_config.max_total_workers
    /\ \E t \in InFlight :
          exec[t].pc = "acquire_provider" /\ provider_semaphores[Provider(t)] = 0
    /\ \E t \in AllTasks : exec[t].pc = "queued"

\* the Tasks in flight that are not waiting for a permit
Active == {t \in InFlight : ~Blocked(t)}

\* C31 as stated: a Task that has not started, whose provider has a free
\* permit, waits only because W other Tasks are actively running ingest, query
\* or scoring; a Task blocked on the permit of one provider never keeps a
\* Task of another provider from starting
C31_LanesIndependent ==
    \A t \in AllTasks :
        (/\ main_pc = "collecting"
         /\ HeadOfQueue(t)
         /\ provider_semaphores[Provider(t)] > 0
         /\ ~ENABLED StartTask(t)) =>
            Cardinality(Active) >= execution_config.max_total_workers

\* C31 amended: the providers' lanes are independent as to permits and share
\* the W workers. The Task at the head of the queue waits exactly when W Tasks
\* are in flight, those blocked on a permit included; a Task in flight waits
\* for its provider's permit exactly when P Tasks of that provider hold it,
\* whatever the Tasks of other providers do, and holds no permit while it waits
C31_LanesShareWorkers ==
    \A t \in AllTasks :
        /\ (main_pc = "collecting" /\ HeadOfQueue(t)) =>
              (ENABLED StartTask(t) <=>
                  Cardinality(InFlight) < execution_config.max_total_workers)
        /\ exec[t].pc = "acquire_provider" =>
              /\ ENABLED AcquireProvider(t) <=>
                    Cardinality(ProviderHolders(Provider(t))) <
                       execution_config.max_per_provider_workers
              /\ ~HasPermit(t, "provider")
              /\ ~HasPermit(t, "ragas")

\* C31 witness: the Task at the head of the queue, whose provider has a free
\* permit, cannot start because one of the W workers is held by a Task that
\* waits for the permit of another provider
C31_Witness ==
    /\ main_pc = "collecting"
    /\ Cardinality(InFlight) = execution_config.max_total_workers
    /\ Cardinality(Active) < execution_config.max_total_workers
    /\ \E t, u \in AllTasks :
          /\ HeadOfQueue(t)
          /\ provider_semaphores[Provider(t)] > 0
          /\ ~ENABLED StartTask(t)
          /\ exec[u].pc = "acquire_provider"
          /\ Blocked(u)
          /\ Provider(u) /= Provider(t)

\* what the calls of execute for the Tasks of a document came to in this run
FuturesOf(d) == [p \in Range(provider_names) |-> exec[<<p, d>>]]

\* the DocumentResult of the RunSummary for a document is that of the legacy
\* processor on the same outcomes: same provider results, same score summary
SameAsLegacy(d) ==
    \E i \in DOMAIN summary.results :
        /\ summary.results[i].doc_id = d
        /\ summary.results[i].providers = ProcessDocument(d, FuturesOf(d)).providers
        /\ summary.results[i].winner = ProcessDocument(d, FuturesOf(d)).winner

\* C33: for a Document and the same providers, questions and outcomes of the
\* provider and scoring calls, the parallel run_benchmark and the legacy
\* DocumentProcessor.process_document give the same map of provider to
\* ProviderResult and the same per-document score summary, also when the
\* future of a Task raises
C33_SubsumesLegacy ==
    (main_pc = "returned" /\ ~resume_enabled /\ provider_names /= <<>>) =>
        \A d \in Range(docs) : SameAsLegacy(d)

\* C33 seen apart from Tasks whose future raised: the same statement for the
\* documents all of whose Tasks returned a ProviderResult
C33_WhenEveryTaskReturned ==
    (main_pc = "returned" /\ ~resume_enabled /\ provider_names /= <<>>) =>
        \A d \in Range(docs) :
            (\A p \in Range(provider_names) : exec[<<p, d>>].future = "result") =>
                SameAsLegacy(d)

\* a step of the call of execute for a Task: from the worker entering execute
\* to execute returning
ExecuteStep(t) ==
    /\ exec'[t] /= exec[t]
    /\ exec[t].future = "running" \/ exec'[t].future = "running"

\* while a Task has not been collected the artifact at its path, if there is
\* one, is what an earlier run left there
NotSavedBeforeCollected ==
    \A t \in Range(tasks_to_run) :
        (exec[t].pc /= "collected" /\ ProviderPath(Doc(t), Provider(t)) \in DOMAIN files) =>
           \/ files[ProviderPath(Doc(t), Provider(t))] \in {PriorResult(t), Corrupt}
           \/ Len(prior_runs) > 0

\* C34: ProviderExecutor.execute leaves the Result Store as it is: no step of
\* it, on the way to success or to error, changes any artifact; an artifact of
\* a ProviderResult is written only by the Scheduler, in the step in which it
\* collects the returned result
C34_ExecuteWritesNothing ==
    /\ []NotSavedBeforeCollected
    /\ [][/\ (\E t \in AllTasks : ExecuteStep(t)) => files' = files
          /\ \A t \in AllTasks :
                Written(ProviderPath(Doc(t), Provider(t))) =>
                   /\ ~ExecuteStep(t)
                   /\ exec[t].pc = "done" /\ exec[t].future = "result"
                   /\ exec'[t].pc = "collected"
                   /\ completed_count' = completed_count + 1]_vars

\* C34 witness: execute has returned a success and one an error, neither
\* collected yet, and the run directory holds no artifact
C34_Witness ==
    /\ DOMAIN files = {}
    /\ \E t, u \in Range(tasks_to_run) :
          /\ exec[t].pc = "done" /\ exec[t].result.status = "success"
          /\ exec[u].pc = "done" /\ exec[u].result.status = "error"

\* the Tasks whose ProviderResult in the run before this one had status error
FailedBefore ==
    IF prior_runs = <<>>
    THEN {}
    ELSE {<<x[1], x[2]>> : x \in {y \in SummaryResultsOf(prior_runs[Len(prior_runs)]) :
                                      y[3].status = "error"}}

\* C37: resume does not retry failures. In a resumed run a Task that ended
\* with status error in the run before has its artifact, the error result, and
\* is skipped like a successful one: it is not submitted, not executed, and no
\* ingest, query or scoring call is made for it
C37_ResumeSkipsFailures ==
    (resume_enabled /\ main_pc /= "start") =>
        \A t \in FailedBefore :
            /\ ProviderPath(Doc(t), Provider(t)) \in DOMAIN files
            /\ files[ProviderPath(Doc(t), Provider(t))].status = "error"
            /\ t \notin Range(tasks_to_run)
            /\ exec[t].pc = "idle"
            /\ exec[t].executions = 0
            /\ exec[t].call_log = <<>>
            /\ exec[t].permit_log = <<>>

\* C37 witness: a resumed run has returned; one Task had failed in the run
\* before and was skipped, as was one that had succeeded
C37_Witness ==
    /\ main_pc = "returned"
    /\ resume_enabled
    /\ prior_runs /= <<>>
    /\ tasks_skipped = 2
    /\ \E t \in FailedBefore, u \in AllTasks \ FailedBefore :
          /\ u \notin Range(tasks_to_run)
          /\ files[ProviderPath(Doc(u), Provider(u))].status = "success"
          /\ exec[t].call_log = <<>>

\* the text execute gives an error result for an exception
ErrorText(e) == e.type \o ": " \o e.msg

\* a scoring attempt that returned a score map with a NaN in it
ReturnedNaN(out) == out.kind = "return" /\ \E m \in DOMAIN out.scores : out.scores[m] = NaN

\* C38: mixed scoring outcomes. Whatever the up to max_retries attempts did,
\* raise, return NaN or return clean scores, in any order: attempts go on
\* until one returns NaN-free scores or max_retries are made; the Task
\* succeeds exactly when the last attempt made returned a score map; a
\* success holds no NaN; a raising last attempt gives status error even after
\* attempts that returned NaN; two raising attempts and a third that returns
\* NaN give a success with 0 for the NaN metrics
C38_MixedScoring ==
    \A t \in AllTasks :
        LET log == exec[t].eval_log
            n == Len(log)
        IN  (Finished(t) /\ n > 0) =>
               /\ exec[t].future = "result"
               /\ n < max_retries => (log[n].kind = "return" /\ ~ReturnedNaN(log[n]))
               /\ \A k \in 1..(n - 1) : log[k].kind = "raise" \/ ReturnedNaN(log[k])
               /\ exec[t].result.status = "success" <=> log[n].kind = "return"
               /\ exec[t].result.status = "error" <=> log[n].kind = "raise"
               /\ exec[t].result.status = "success" =>
                     /\ \A m \in DOMAIN exec[t].result.aggregated_scores :
                           exec[t].result.aggregated_scores[m] /= NaN
                     /\ \A i \in DOMAIN exec[t].result.questions :
                           \A m \in DOMAIN exec[t].result.questions[i].evaluation_scores :
                              exec[t].result.questions[i].evaluation_scores[m] /= NaN
               /\ (n = max_retries /\ log[n].kind = "raise") =>
                     /\ exec[t].result.status = "error"
                     /\ exec[t].result.error = ErrorText(log[n].exc)
               /\ (n = max_retries /\ ReturnedNaN(log[n])) =>
                     /\ exec[t].result.status = "success"
                     /\ \A m \in DOMAIN log[n].scores :
                           exec[t].result.aggregated_scores[m] =
                              IF log[n].scores[m] = NaN THEN 0 ELSE log[n].scores[m]

\* C38 witness: two raising attempts, a third that returned a NaN, and a
\* success with 0 in its place
C38_Witness ==
    \E t \in AllTasks :
        /\ Finished(t)
        /\ Len(exec[t].eval_log) = max_retries
        /\ \A k \in 1..(max_retries - 1) : exec[t].eval_log[k].kind = "raise"
        /\ ReturnedNaN(exec[t].eval_log[max_retries])
        /\ exec[t].result.status = "success"
        /\ \E m \in DOMAIN exec[t].eval_log[max_retries].scores :
              /\ exec[t].eval_log[max_retries].scores[m] = NaN
              /\ exec[t].result.aggregated_scores[m] = 0

\* the Tasks inside an external call that never returns
HungTasks == {t \in AllTasks : exec[t].pc = "hung"}

\* C32: an ingest, query or scoring call that does not return is cut off by
\* its timeout and treated like a failed call: no Task stays inside such a
\* call for ever, its permits come back, and the run returns
C32_TimeoutAborts ==
    (HungTasks /= {}) ~>
        /\ HungTasks = {}
        /\ main_pc = "returned"
        /\ ragas_semaphore = execution_config.max_ragas_workers
        /\ \A p \in Range(provider_names) :
              provider_semaphores[p] = execution_config.max_per_provider_workers

\* C32 seen apart from calls that never return: a call that raises its own
\* timeout error ends the Task with status error, after one ingest call and
\* no repeated query, its permits given back
C32_RaisedTimeout ==
    \A t \in AllTasks :
        (Finished(t) /\ exec[t].failed_phase \in {"ingest", "query"}) =>
            /\ exec[t].result.status = "error"
            /\ Len(CallsOf(t, "ingest")) = 1
            /\ QueriedAtMostOnce(t)
            /\ ~HasPermit(t, "provider")
            /\ ~HasPermit(t, "ragas")

\* a persistence task that has been created and has not finished
TaskRunning(b) == battle.tasks[b].pc \in {"upload", "create", "created", "create_failed"}

\* a task that runs has its entry, a task whose callback has run has none
RegistryHoldsPending ==
    /\ \A b \in Battles :
          /\ TaskRunning(b) => b \in battle.registry
          /\ b \in battle.registry => battle.tasks[b].pc /= "none"
          /\ battle.tasks[b].pc = "done" <=> battle.tasks[b].callback /= "none"
          /\ battle.tasks[b].pc = "done" => battle.tasks[b].outcome \in {"returned", "raised"}
          /\ battle.tasks[b].callback = "scheduled" => b \in battle.registry
          /\ battle.tasks[b].callback = "ran" => b \notin battle.registry
    /\ (\A c \in Battles : battle.tasks[c].callback \in {"none", "ran"} /\ ~TaskRunning(c))
          => battle.registry = {}

\* an entry leaves the registry in the step of its finished task's callback
RemovedByCallback ==
    \A b \in Battles :
        (b \in battle.registry /\ b \notin battle'.registry) =>
            /\ battle.tasks[b].pc = "done"
            /\ battle.tasks[b].callback = "scheduled"
            /\ battle'.tasks[b].callback = "ran"

EnsureReturned == {r \in Requests : battle.requests[r].ensured /= "pending"}

\* the battle was persisted when the call returned, and the call had not
\* timed out: it must return the battle
ReturnsPersisted(r) ==
    (battle.requests[r].persisted_at_return /\ battle.requests[r].waited /= "timeout") =>
        battle.requests[r].ensured = "battle"

\* a wait that timed out gives None
TimeoutGivesNone(r) ==
    battle.requests[r].waited = "timeout" => battle.requests[r].ensured = "none"

\* C36: _ensure_battle_persisted, for a battle not yet in the database, waits
\* for the registered task at most the timeout and asks the database again;
\* it returns the battle when persistence finished in time, and None (404)
\* when no task is registered, when the wait timed out or when the task failed
C36_EnsureOutcome ==
    \A r \in EnsureReturned :
        /\ ReturnsPersisted(r)
        /\ TimeoutGivesNone(r)
        /\ battle.requests[r].waited = "raised" => battle.requests[r].ensured = "none"
        /\ battle.requests[r].ensured = "battle" =>
              battle.requests[r].battle_id \subseteq battle.runs
        /\ battle.requests[r].ensured = "none" <=> battle.requests[r].status = "404"

\* C36 without its two failing parts: what the call returns is what the
\* database answered last, and a task that raised gives None
C36_ReturnsLastAnswer ==
    \A r \in EnsureReturned :
        /\ battle.requests[r].ensured = "battle" <=> battle.requests[r].row /= {}
        /\ battle.requests[r].waited = "raised" => battle.requests[r].ensured = "none"
        /\ battle.requests[r].ensured = "battle" =>
              battle.requests[r].battle_id \subseteq battle.runs
        /\ battle.requests[r].ensured = "none" <=> battle.requests[r].status = "404"

\* the feedback records of a battle, and the requests that failed
FailedRequests == {r \in Requests : battle.requests[r].status = "500"}

\* C39: after any number of feedback requests for a battle, concurrent ones
\* included, the battle has at most one feedback record, and no request
\* fails because another one created the record between its lookup and its
\* create
C39_OneFeedbackNoFailure ==
    /\ \A b \in Battles : battle.feedback[b] <= 1
    /\ FailedRequests = {}

\* C39 in part: at most one feedback record per battle, and a request that
\* found the record updates it and succeeds
C39_AtMostOneRecord ==
    /\ \A b \in Battles : battle.feedback[b] <= 1
    /\ \A r \in FailedRequests : ~battle.requests[r].existing

====
